---- MODULE Spec2Model ----
(***************************************************************************)
(* GameserverQuery: the query engine (single query, discovery scan with    *)
(* dynamic port expansion, progress reporting) and the protocol codecs'    *)
(* result contract, as state machines.                                     *)
(*                                                                         *)
(* Time is counted in ticks of 50 ms.                                      *)
(***************************************************************************)
EXTENDS Integers, Sequences, FiniteSets, TLC

\* ------------------------------------------------------------------------
\* Bounds of the model
\* ------------------------------------------------------------------------
\* servers the modelled host runs at most
MaxServers == 2
\* capacity of the caller's progress channel (0 = unbuffered)
ProgCap == 1

\* ------------------------------------------------------------------------
\* Program constants
\* ------------------------------------------------------------------------
None == "none"
\* protocol.DiscoveryTimeout = 300 ms
DiscoveryTimeout == 6
deadPortThreshold == 3
minPort == 1024
maxPort == 65535
adjacentPortRange == 3
\* const maxDiscoveryWorkers of the legacy expansion
maxDiscoveryWorkers == 3

\* the registry after the init() calls: name -> protocol
Protocols == {"a2s", "minecraft", "terraria"}

DefaultPort(p) ==
  CASE p = "a2s" -> 27015
    [] p = "minecraft" -> 25565
    [] p = "terraria" -> 7777

\* seedPorts of discoverPortsDynamically: the unique default ports
SeedPorts == {DefaultPort(p) : p \in Protocols}

Range(f) == {f[i] : i \in DOMAIN f}

\* every order in which a Go map range can yield the elements of S
RECURSIVE Perms(_)
Perms(S) ==
  IF S = {} THEN {<<>>}
  ELSE UNION {{<<x>> \o t : t \in Perms(S \ {x})} : x \in S}

\* AutoDetectProtocolStrategy.GetProtocols: the protocols whose default port
\* is this port first, then the others, each group in map order
GetProtocols(port) ==
  {m \o r : m \in Perms({p \in Protocols : DefaultPort(p) = port}),
            r \in Perms({p \in Protocols : DefaultPort(p) # port})}

VARIABLES
  \* --- environment and request
  server,          \* the host: port -> protocol spoken there
  cancelled,       \* the caller's ctx is done
  optPortRange,    \* Options.PortRange
  specifiedPort,   \* the port parseAddress found (0: none; negative: it
                   \* returned an error)
  maxConcurrency,  \* Options.MaxConcurrency
  withProgress,    \* the call was given a progress channel
  mainpc,          \* position of the calling goroutine
  \* --- dynamic port expansion (discoverPortsDynamically)
  seedsLeft, seedPort, port, consecutiveFailures, allPorts,
  passLog,         \* the iterations of the current direction: <<port, outcome>>
  probed,          \* ports hasActiveServer was called on
  lastCheck,       \* the hasActiveServer call of the running iteration:
                   \* [port, ok, tried: how many protocols it attempted,
                   \* tcp: its pre-check dial connected]
  \* --- the scan of executeDiscoveryQuery; worker w scans portsToScan[w]
  portsToScan,
  wpc,             \* worker -> "acquire", "dial", "io", "notify", "done"
  wlog,            \* worker -> the protocols it started, in order
  werr,            \* worker -> how its last proto.Query ended
  wfound,          \* worker -> its `found`
  wprog,           \* worker -> currentProgress taken under progressMux
  sem,             \* permits held: len(semaphore)
  completed, serversFound,
  results,         \* the results channel
  resultsClosed,
  servers,         \* what the collector gathered
  \* --- the caller's progress channel
  progressChan, progressClosed,
  \* --- legacy expansion (discoverPortsDynamicallyWithProgress); one
  \* goroutine per seed port
  spc,             \* seed -> "sem", "send", "probe", "done"
  sdir,            \* seed -> "seed", "up", "down"
  sport,           \* seed -> the port of the running iteration
  sfail,           \* seed -> its consecutiveFailures
  lsem,            \* permits held of the discovery worker pool
  portsChecked,
  \* --- single query (executeSingleQuery)
  game,            \* QueryRequest.Game
  address,         \* QueryRequest.Address: [form, portStr]
  timeoutOpt,      \* Options.Timeout, in ticks
  discoveryMode,   \* Options.DiscoveryMode of the struct req.Options points to
  candidates,      \* the ports of SinglePortStrategy.GetPorts
  tried,           \* the candidates attempted so far: [port, ok]
  elapsed,         \* ticks the call has taken
  retServers,      \* QueryResult.Servers
  retErr,          \* QueryResult.Error
  \* --- one protocol codec's Query call
  cdProto,         \* the codec
  cdPlayers,       \* Options.Players
  cdpc,            \* "connect", "tshock", "write", "read", "challenge", "players",
                   \* "done" (the codec returned), "returned" (the engine returned)
  cdResult,        \* the ServerInfo being built; the one returned when done
  cdClock,         \* [total: time since queryWithServerInfo took `start`,
                   \*  first: time on the codec's own ping timer]
  cdSent,          \* what an A2S query has requested so far, in order: [req,
                   \* reply: the kind of datagram read in answer]; and what a
                   \* Terraria query has requested so far, in order:
                   \* [req, usable: a REST answer that could be used]
  \* --- one codec exchange at the level of bytes
  wProto,          \* the codec
  wValue,          \* what the server holds: its A2SInfo, or its status document
  script,          \* how the server behaves
  token,           \* the server's challenge, four bytes
  keep,            \* bytes of the server's answer that arrive
  sent,            \* the datagrams the codec wrote, in order
  response,        \* the bytes of the last read
  wirepc,          \* "start", "read", "read2", "done"
  wireRet,         \* what Query returned
  \* --- one call of a pure function of the codecs
  fnName, fnArg, fnRes, fnpc

envVars == <<server, cancelled, optPortRange, specifiedPort, maxConcurrency, withProgress>>
expVars == <<seedsLeft, seedPort, port, consecutiveFailures, allPorts, passLog, probed,
             lastCheck>>
scanVars == <<portsToScan, wpc, wlog, werr, wfound, wprog, sem, completed, serversFound,
              results, resultsClosed, servers>>
progVars == <<progressChan, progressClosed>>
legacyVars == <<spc, sdir, sport, sfail, lsem, portsChecked>>
singleVars == <<game, address, timeoutOpt, discoveryMode, candidates, tried, elapsed, retServers, retErr>>
codecVars == <<cdProto, cdPlayers, cdpc, cdResult, cdClock, cdSent>>
wireVars == <<wProto, wValue, script, token, keep, sent, response, wirepc, wireRet>>
fnVars == <<fnName, fnArg, fnRes, fnpc>>
pureVars == <<wireVars, fnVars>>
auxVars == <<singleVars, codecVars, pureVars>>
vars == <<envVars, mainpc, expVars, scanVars, progVars, legacyVars, auxVars>>

\* what the expansion leaves alone
offExpand == <<scanVars, progVars, legacyVars, auxVars>>

ServerAt(q) == IF q \in DOMAIN server THEN server[q] ELSE None

\* ------------------------------------------------------------------------
\* One protocol query (proto.Query) as the engine sees it
\* ------------------------------------------------------------------------
\* setupConnection dials under ctx; a server answers its own protocol; any
\* other protocol is refused at once or runs into the socket deadline
QueryOutcomes(p, q, ctxDone) ==
  IF ctxDone THEN {"ctx"}
  ELSE IF ServerAt(q) = p THEN {"ok"}
  ELSE {"refused", "timeout"}

Failed == [ok |-> FALSE, proto |-> None, cost |-> 0, tried |-> <<>>]

\* tryProtocolsOnPort over one protocol order. `expires`: ctx carries a deadline
\* no later than one attempt's own (the check context of hasActiveServer), so
\* an attempt that times out leaves ctx done; `timeout` is one attempt's cost.
RECURSIVE TryFrom(_, _, _, _, _)
TryFrom(order, q, ctxDone, expires, timeout) ==
  IF order = <<>> THEN {Failed}
  ELSE LET p == Head(order)
           Prepend(r, c) == [r EXCEPT !.tried = <<p>> \o @, !.cost = c + @]
       IN UNION {
            CASE o = "ok" -> {[ok |-> TRUE, proto |-> p, cost |-> 0, tried |-> <<p>>]}
              [] o = "refused" ->
                   {Prepend(r, 0) : r \in TryFrom(Tail(order), q, ctxDone, expires, timeout)}
              [] o = "timeout" ->
                   IF expires THEN {Prepend(Failed, timeout)}
                   ELSE {Prepend(r, timeout) :
                           r \in TryFrom(Tail(order), q, ctxDone, expires, timeout)}
              [] o = "ctx" -> {Prepend(Failed, 0)}
            : o \in QueryOutcomes(p, q, ctxDone)}

tryProtocolsOnPort(q, ctxDone, expires, timeout) ==
  UNION {TryFrom(order, q, ctxDone, expires, timeout) : order \in GetProtocols(q)}

\* net.DialTimeout("tcp", ...) of the pre-check: Minecraft and Terraria
\* listen on TCP; an A2S game answers on UDP and may or may not listen on
\* TCP as well; a port without a server accepts nothing
TcpDial(q) ==
  IF ServerAt(q) \in {"minecraft", "terraria"} THEN {TRUE}
  ELSE IF ServerAt(q) = "a2s" THEN BOOLEAN
  ELSE {FALSE}

\* hasActiveServer: the TCP pre-check dial decides nothing, both branches run
\* the protocols under the 300 ms check context
CheckRuns(q, ctxDone) ==
  UNION {{[ok |-> r.ok, tried |-> r.tried, tcp |-> tcpOk] :
            r \in tryProtocolsOnPort(q, ctxDone, TRUE, DiscoveryTimeout)}
         : tcpOk \in TcpDial(q)}

hasActiveServer(q, ctxDone) == {r.ok : r \in CheckRuns(q, ctxDone)}

\* one call of hasActiveServer as the expansion loop sees it; NoCheck: the
\* iteration made none
NoCheck == [port |-> 0, ok |-> FALSE, tried |-> 0, tcp |-> FALSE]
Checked(q, r) == [port |-> q, ok |-> r.ok, tried |-> Len(r.tried), tcp |-> r.tcp]
Checks(q, ctxDone) == {Checked(q, r) : r \in CheckRuns(q, ctxDone)}

\* ------------------------------------------------------------------------
\* Dynamic port expansion: DiscoveryPortStrategy.discoverPortsDynamically
\* ------------------------------------------------------------------------
\* the candidate hosts of the expansion runs: servers around one seed, on
\* the seed, next to it, or behind one dead port
ServerOffsets == {-1, 0, 2}
Cluster(c) == {c + d : d \in ServerOffsets}

HostsNear ==
  UNION {UNION {[S -> Protocols] : S \in {T \in SUBSET Cluster(c) : Cardinality(T) <= MaxServers}}
         : c \in SeedPorts}

\* `consecutiveFailures >= deadPortThreshold`: the direction is given up
ShouldStopMutant(failures) == failures > deadPortThreshold
ShouldStop(failures) == failures >= deadPortThreshold

\* a seed enters allPorts when its own check found a server
SeedKeptMutant(active) == TRUE
SeedKept(active) == active

\* ctx is cancelled by the caller at any moment before the call returns
Cancel ==
  /\ ~cancelled
  /\ mainpc \notin {"expanded", "scan", "done"}
  /\ cancelled' = TRUE
  /\ UNCHANGED <<server, optPortRange, specifiedPort, maxConcurrency, withProgress>>
  /\ UNCHANGED <<mainpc, expVars, scanVars, progVars, legacyVars, auxVars>>

\* `for seedPort := range seedPorts`: the next seed in map order, and the
\* check of the seed port itself
PickSeed ==
  /\ mainpc = "seed"
  /\ seedsLeft # {}
  /\ \E s \in seedsLeft : \E r \in Checks(s, cancelled) :
       /\ seedPort' = s
       /\ seedsLeft' = seedsLeft \ {s}
       /\ allPorts' = IF SeedKept(r.ok) THEN allPorts \cup {s} ELSE allPorts
       /\ lastCheck' = r
       /\ probed' = probed \cup {s}
       /\ port' = s + 1
  /\ consecutiveFailures' = 0
  /\ passLog' = <<>>
  /\ mainpc' = "up"
  /\ UNCHANGED <<envVars, offExpand>>

\* one iteration of a scan loop; step is +1 (upward) or -1 (downward)
Iterate(step, endpc) ==
  IF ~(IF step = 1 THEN port <= maxPort ELSE port >= minPort)
  THEN /\ mainpc' = endpc
       /\ lastCheck' = NoCheck
       /\ UNCHANGED <<port, consecutiveFailures, allPorts, passLog, probed>>
  ELSE IF port \in allPorts
  THEN /\ consecutiveFailures' = 0
       /\ port' = port + step
       /\ passLog' = Append(passLog, [port |-> port, r |-> "skip"])
       /\ lastCheck' = NoCheck
       /\ UNCHANGED <<mainpc, allPorts, probed>>
  ELSE \E run \in Checks(port, cancelled) : LET active == run.ok IN
       /\ probed' = probed \cup {port}
       /\ lastCheck' = run
       /\ passLog' = Append(passLog, [port |-> port, r |-> IF active THEN "ok" ELSE "dead"])
       /\ IF active
          THEN /\ allPorts' = allPorts \cup {port}
               /\ consecutiveFailures' = 0
               /\ port' = port + step
               /\ UNCHANGED mainpc
          ELSE /\ consecutiveFailures' = consecutiveFailures + 1
               /\ UNCHANGED allPorts
               /\ IF ShouldStop(consecutiveFailures + 1)
                  THEN mainpc' = endpc /\ UNCHANGED port
                  ELSE port' = port + step /\ UNCHANGED mainpc

ScanUp ==
  /\ mainpc = "up"
  /\ Iterate(1, "upEnd")
  /\ UNCHANGED <<envVars, offExpand, seedsLeft, seedPort>>

\* the upward loop is left: `consecutiveFailures = 0`, downward from seed - 1
EndUp ==
  /\ mainpc = "upEnd"
  /\ mainpc' = "down"
  /\ consecutiveFailures' = 0
  /\ port' = seedPort - 1
  /\ passLog' = <<>>
  /\ UNCHANGED <<envVars, offExpand, seedsLeft, seedPort, allPorts, probed, lastCheck>>

ScanDown ==
  /\ mainpc = "down"
  /\ Iterate(-1, "downEnd")
  /\ UNCHANGED <<envVars, offExpand, seedsLeft, seedPort>>

\* the downward loop is left: the next seed, or the expansion is over
EndDown ==
  /\ mainpc = "downEnd"
  /\ mainpc' = IF seedsLeft = {} THEN "expanded" ELSE "seed"
  /\ passLog' = <<>>
  /\ lastCheck' = NoCheck
  /\ UNCHANGED <<envVars, offExpand, seedsLeft, seedPort, port, consecutiveFailures, allPorts, probed>>

\* the locals of the expansion, the scan and the progress channel before use
ExpandIdle ==
  /\ seedsLeft = SeedPorts
  /\ seedPort = 0
  /\ port = 0
  /\ consecutiveFailures = 0
  /\ allPorts = {}
  /\ passLog = <<>>
  /\ probed = {}
  /\ lastCheck = NoCheck

ScanIdle ==
  /\ portsToScan = <<>>
  /\ wpc = <<>>
  /\ wlog = <<>>
  /\ werr = <<>>
  /\ wfound = <<>>
  /\ wprog = <<>>
  /\ sem = 0
  /\ completed = 0
  /\ serversFound = 0
  /\ results = <<>>
  /\ resultsClosed = FALSE
  /\ servers = <<>>
  /\ progressChan = <<>>
  /\ progressClosed = FALSE

LegacyIdle ==
  /\ spc = <<>>
  /\ sdir = <<>>
  /\ sport = <<>>
  /\ sfail = <<>>
  /\ lsem = 0
  /\ portsChecked = 0

SingleIdle ==
  /\ game = None
  /\ address = None
  /\ timeoutOpt = 0
  /\ discoveryMode = FALSE
  /\ candidates = <<>>
  /\ tried = <<>>
  /\ elapsed = 0
  /\ retServers = <<>>
  /\ retErr = None

\* &ServerInfo{Online: false}: the zero value but for Online. Players.List
\* is a Go slice: nil (ListNil) or a sequence of ListLen players.
OfflineInfo ==
  [Online |-> FALSE, Current |-> 0, ListNil |-> TRUE, ListLen |-> 0, Ping |-> 0, err |-> None]

CodecIdle ==
  /\ cdProto = None
  /\ cdPlayers = FALSE
  /\ cdpc = "idle"
  /\ cdResult = OfflineInfo
  /\ cdClock = [total |-> 0, first |-> 0]
  /\ cdSent = <<>>

WireIdle ==
  /\ wProto = None
  /\ wValue = <<>>
  /\ script = None
  /\ token = <<>>
  /\ keep = 0
  /\ sent = <<>>
  /\ response = <<>>
  /\ wirepc = "idle"
  /\ wireRet = <<>>

FnIdle ==
  /\ fnName = None
  /\ fnArg = <<>>
  /\ fnRes = <<>>
  /\ fnpc = "idle"

InitExpand ==
  /\ server \in HostsNear
  /\ cancelled = FALSE
  /\ optPortRange = <<>>
  /\ specifiedPort = 0
  /\ maxConcurrency = 0
  /\ withProgress = FALSE
  /\ mainpc = "seed"
  /\ ExpandIdle
  /\ ScanIdle
  /\ LegacyIdle
  /\ SingleIdle
  /\ CodecIdle
  /\ WireIdle
  /\ FnIdle

NextExpand == PickSeed \/ ScanUp \/ EndUp \/ ScanDown \/ EndDown \/ Cancel

\* the expansion alone, over every host of HostsNear
SpecExpand == InitExpand /\ [][NextExpand]_vars

\* ------------------------------------------------------------------------
\* Discovery: QueryEngine.executeDiscoveryQuery behind DiscoverServers and
\* DiscoverServersWithProgress
\* ------------------------------------------------------------------------
Last(q) == q[Len(q)]
Workers == DOMAIN wpc

\* the host of the example: Minecraft and an A2S game on their default ports
DefaultsHost == (25565 :> "minecraft" @@ 27015 :> "a2s")

\* the hosts of the discovery runs
HostsScan ==
  { DefaultsHost,
    (27015 :> "a2s" @@ 27016 :> "a2s"),
    (27015 :> "minecraft"),
    <<>> }

\* the lists a caller passes with WithPortRange or WithCustomPorts
PortLists == {<<27015, 27016>>, <<27015, 27015>>}

\* `maxConcurrency <= 0` means ports x protocols
SemCapMutant == maxConcurrency
SemCap ==
  IF maxConcurrency > 0 THEN maxConcurrency
  ELSE Len(portsToScan) * Cardinality(Protocols)

\* the callback of DiscoverServersWithProgress: `select { case ch <- p: default: }`
TrySend(ch, m) ==
  IF withProgress /\ Len(ch) < ProgCap THEN Append(ch, m) ELSE ch

\* the ScanProgress literal: the lengths of portsToScan and of the protocol
\* map, and the two counters as they stand under progressMux
ScanProgressMutant(c, f) ==
  [TotalPorts |-> Len(portsToScan), TotalProtocols |-> Cardinality(Protocols),
   Completed |-> IF c > 0 THEN c - 1 ELSE 0, ServersFound |-> f]
ScanProgress(c, f) ==
  [TotalPorts |-> Len(portsToScan), TotalProtocols |-> Cardinality(Protocols),
   Completed |-> c, ServersFound |-> f]

\* DiscoveryPortStrategy.GetPorts: the caller's list, else the one port of
\* the address, else dynamic discovery
GetPortsMutant ==
  /\ mainpc = "begin"
  /\ specifiedPort >= 0
  /\ IF specifiedPort # 0
     THEN portsToScan' = <<specifiedPort>> /\ mainpc' = "ports"
     ELSE portsToScan' = portsToScan /\ mainpc' = "seed"
  /\ UNCHANGED <<envVars, expVars, progVars, legacyVars, auxVars>>
  /\ UNCHANGED <<wpc, wlog, werr, wfound, wprog, sem, completed, serversFound,
                 results, resultsClosed, servers>>
GetPorts ==
  /\ mainpc = "begin"
  /\ specifiedPort >= 0
  /\ IF Len(optPortRange) > 0
     THEN portsToScan' = optPortRange /\ mainpc' = "ports"
     ELSE IF specifiedPort # 0
     THEN portsToScan' = <<specifiedPort>> /\ mainpc' = "ports"
     ELSE portsToScan' = portsToScan /\ mainpc' = "seed"
  /\ UNCHANGED <<envVars, expVars, progVars, legacyVars, auxVars>>
  /\ UNCHANGED <<wpc, wlog, werr, wfound, wprog, sem, completed, serversFound,
                 results, resultsClosed, servers>>

\* the end of discoverPortsDynamically: allPorts as a slice, in map order
ReturnPorts ==
  /\ mainpc = "expanded"
  /\ portsToScan' \in Perms(allPorts)
  /\ mainpc' = "ports"
  /\ UNCHANGED <<envVars, expVars, progVars, legacyVars, auxVars>>
  /\ UNCHANGED <<wpc, wlog, werr, wfound, wprog, sem, completed, serversFound,
                 results, resultsClosed, servers>>

\* semaphore, results channel, counters, the initial progress, and one
\* goroutine per entry of portsToScan
StartScan ==
  /\ mainpc = "ports"
  /\ wpc' = [w \in 1..Len(portsToScan) |-> "acquire"]
  /\ wlog' = [w \in 1..Len(portsToScan) |-> <<>>]
  /\ werr' = [w \in 1..Len(portsToScan) |-> None]
  /\ wfound' = [w \in 1..Len(portsToScan) |-> FALSE]
  /\ wprog' = [w \in 1..Len(portsToScan) |-> None]
  /\ sem' = 0
  /\ completed' = 0
  /\ serversFound' = 0
  /\ results' = <<>>
  /\ resultsClosed' = FALSE
  /\ servers' = <<>>
  /\ progressChan' = TrySend(progressChan, ScanProgress(0, 0))
  /\ mainpc' = "collect"
  /\ UNCHANGED <<envVars, expVars, portsToScan, progressClosed, legacyVars, auxVars>>

\* `case semaphore <- struct{}{}`: a permit is free; the next protocol of
\* the map range is taken up and proto.Query starts
Acquire(w) ==
  /\ wpc[w] = "acquire"
  /\ sem < SemCap
  /\ \E p \in Protocols \ Range(wlog[w]) :
       wlog' = [wlog EXCEPT ![w] = Append(@, p)]
  /\ sem' = sem + 1
  /\ wpc' = [wpc EXCEPT ![w] = "dial"]
  /\ UNCHANGED <<envVars, mainpc, expVars, progVars, legacyVars, auxVars>>
  /\ UNCHANGED <<portsToScan, werr, wfound, wprog, completed, serversFound, results,
                 resultsClosed, servers>>

\* `case <-ctx.Done(): return`
GiveUp(w) ==
  /\ wpc[w] = "acquire"
  /\ cancelled
  /\ wpc' = [wpc EXCEPT ![w] = "done"]
  /\ UNCHANGED <<envVars, mainpc, expVars, progVars, legacyVars, auxVars>>
  /\ UNCHANGED <<portsToScan, wlog, werr, wfound, wprog, sem, completed,
                 serversFound, results, resultsClosed, servers>>

\* `err == nil && info.Online`
SucceededMutant(e) == e \in {"ok", "refused"}
Succeeded(e) == e = "ok"

\* proto.Query has returned with e: under progressMux the counters move, a
\* success goes to results, and currentProgress is taken
Finish(w, e) ==
  LET f == IF Succeeded(e) THEN serversFound + 1 ELSE serversFound IN
  /\ completed' = completed + 1
  /\ serversFound' = f
  /\ results' = IF Succeeded(e)
                THEN Append(results, [port |-> portsToScan[w], proto |-> Last(wlog[w])])
                ELSE results
  /\ werr' = [werr EXCEPT ![w] = e]
  /\ wfound' = [wfound EXCEPT ![w] = Succeeded(e)]
  /\ wprog' = [wprog EXCEPT ![w] = IF withProgress THEN ScanProgress(completed + 1, f)
                                   ELSE None]
  /\ wpc' = [wpc EXCEPT ![w] = "notify"]

\* setupConnection: DialContext under ctx. A cancelled ctx fails it at once;
\* a port that does not speak the protocol may refuse; else the connection
\* stands, the deadline is set and the request is on its way
Dial(w) ==
  /\ wpc[w] = "dial"
  /\ IF cancelled
     THEN Finish(w, "ctx")
     ELSE \/ /\ ServerAt(portsToScan[w]) # Last(wlog[w])
             /\ Finish(w, "refused")
          \/ /\ wpc' = [wpc EXCEPT ![w] = "io"]
             /\ UNCHANGED <<werr, wfound, wprog, completed, serversFound, results>>
  /\ UNCHANGED <<envVars, mainpc, expVars, progVars, legacyVars, auxVars>>
  /\ UNCHANGED <<portsToScan, wlog, sem, resultsClosed, servers>>

\* conn.Read returns: with the answer of a server of this protocol, else with
\* the timeout error of the socket deadline. ctx plays no part in it
IoEnd(w) ==
  /\ wpc[w] = "io"
  /\ Finish(w, IF ServerAt(portsToScan[w]) = Last(wlog[w]) THEN "ok" ELSE "timeout")
  /\ UNCHANGED <<envVars, mainpc, expVars, progVars, legacyVars, auxVars>>
  /\ UNCHANGED <<portsToScan, wlog, sem, resultsClosed, servers>>

\* the progress callback, the deferred `<-semaphore`, then `if found { break }`
\* or the next protocol of the range
Notify(w) ==
  /\ wpc[w] = "notify"
  /\ progressChan' = TrySend(progressChan, wprog[w])
  /\ sem' = sem - 1
  /\ wpc' = [wpc EXCEPT ![w] =
               IF wfound[w] \/ Range(wlog[w]) = Protocols THEN "done" ELSE "acquire"]
  /\ werr' = [werr EXCEPT ![w] = None]
  /\ wprog' = [wprog EXCEPT ![w] = None]
  /\ UNCHANGED <<envVars, mainpc, expVars, progressClosed, legacyVars, auxVars>>
  /\ UNCHANGED <<portsToScan, wlog, wfound, completed, serversFound, results,
                 resultsClosed, servers>>

\* `go func() { wg.Wait(); close(results) }()`
CloseResults ==
  /\ mainpc = "collect"
  /\ ~resultsClosed
  /\ \A w \in Workers : wpc[w] = "done"
  /\ resultsClosed' = TRUE
  /\ UNCHANGED <<envVars, mainpc, expVars, progVars, legacyVars, auxVars>>
  /\ UNCHANGED <<portsToScan, wpc, wlog, werr, wfound, wprog, sem, completed,
                 serversFound, results, servers>>

\* `for res := range results`: one result is taken
Collect ==
  /\ mainpc = "collect"
  /\ results # <<>>
  /\ servers' = Append(servers, Head(results))
  /\ results' = Tail(results)
  /\ UNCHANGED <<envVars, mainpc, expVars, progVars, legacyVars, auxVars>>
  /\ UNCHANGED <<portsToScan, wpc, wlog, werr, wfound, wprog, sem, completed,
                 serversFound, resultsClosed>>

\* results is closed and drained: Execute returns
\* `&QueryResult{Servers: servers}`, and DiscoverServersWithProgress closes
\* the progress channel
ReturnMutant ==
  /\ mainpc = "collect"
  /\ results = <<>>
  /\ resultsClosed
  /\ mainpc' = "done"
  /\ progressClosed' = withProgress
  /\ retServers' = servers
  /\ retErr' = IF servers = <<>> THEN "no responsive server" ELSE None
  /\ UNCHANGED <<envVars, expVars, scanVars, progressChan, legacyVars, codecVars, pureVars>>
  /\ UNCHANGED <<game, address, timeoutOpt, discoveryMode, candidates, tried, elapsed>>
Return ==
  /\ mainpc = "collect"
  /\ results = <<>>
  /\ resultsClosed
  /\ mainpc' = "done"
  /\ progressClosed' = withProgress
  /\ retServers' = servers
  /\ retErr' = None
  /\ UNCHANGED <<envVars, expVars, scanVars, progressChan, legacyVars, codecVars, pureVars>>
  /\ UNCHANGED <<game, address, timeoutOpt, discoveryMode, candidates, tried, elapsed>>

\* parseAddress failed: Execute returns `&QueryResult{Error: ...}`, and
\* DiscoverServersWithProgress closes the progress channel
AddressError ==
  /\ mainpc = "begin"
  /\ specifiedPort < 0
  /\ mainpc' = "done"
  /\ progressClosed' = withProgress
  /\ retErr' = "invalid address"
  /\ UNCHANGED <<envVars, expVars, scanVars, progressChan, legacyVars, codecVars, pureVars>>
  /\ UNCHANGED <<game, address, timeoutOpt, discoveryMode, candidates, tried, elapsed, retServers>>

\* the consumer of the progress channel takes one update
ReceiveProgress ==
  /\ progressChan # <<>>
  /\ progressChan' = Tail(progressChan)
  /\ UNCHANGED <<envVars, mainpc, expVars, scanVars, progressClosed, legacyVars, auxVars>>

\* DiscoverServers: no progress callback
Init ==
  /\ server \in HostsScan
  /\ cancelled = FALSE
  /\ optPortRange \in PortLists \cup {<<>>}
  /\ specifiedPort \in {0, 27015}
  /\ maxConcurrency \in {0, 1, 2}
  /\ withProgress = FALSE
  /\ mainpc = "begin"
  /\ ExpandIdle
  /\ ScanIdle
  /\ LegacyIdle
  /\ SingleIdle
  /\ CodecIdle
  /\ WireIdle
  /\ FnIdle

Next ==
  \/ GetPorts
  \/ PickSeed \/ ScanUp \/ EndUp \/ ScanDown \/ EndDown
  \/ ReturnPorts
  \/ StartScan
  \/ \E w \in Workers : Acquire(w) \/ GiveUp(w) \/ Dial(w) \/ IoEnd(w) \/ Notify(w)
  \/ CloseResults \/ Collect \/ Return
  \/ Cancel

\* one DiscoverServers call from the entry point to its return
Spec == Init /\ [][Next]_vars

\* `make(chan result, len(portsToScan)*len(protocol.AllProtocols()))`
ResultsCap == Len(portsToScan) * Cardinality(Protocols)

\* the goroutines of one call: the caller's, which runs the expansion, starts
\* the scan and collects; one per scanned port; the one that waits and closes
MainStep ==
  \/ GetPorts
  \/ PickSeed \/ ScanUp \/ EndUp \/ ScanDown \/ EndDown
  \/ ReturnPorts
  \/ StartScan
  \/ Collect \/ Return

WorkerStep(w) ==
  /\ w \in Workers
  /\ Acquire(w) \/ GiveUp(w) \/ Dial(w) \/ IoEnd(w) \/ Notify(w)

\* the longest port list of the runs below
MaxScanned == 2

\* the calls of the termination runs: no server or the two of the example,
\* the expansion or a list of two ports, permits for all or for one
InitLive ==
  /\ server \in {<<>>, DefaultsHost}
  /\ cancelled = FALSE
  /\ optPortRange \in {<<>>, <<27015, 27016>>}
  /\ specifiedPort = 0
  /\ maxConcurrency \in {0, 1}
  /\ withProgress = FALSE
  /\ mainpc = "begin"
  /\ ExpandIdle
  /\ ScanIdle
  /\ LegacyIdle
  /\ SingleIdle
  /\ CodecIdle
  /\ WireIdle
  /\ FnIdle

\* the scheduler runs every goroutine that can take a step, and a socket
\* read ends at its deadline; the caller is free to cancel or not
SpecLive ==
  /\ InitLive
  /\ [][Next]_vars
  /\ WF_vars(MainStep)
  /\ \A w \in 1..MaxScanned : WF_vars(WorkerStep(w))
  /\ WF_vars(CloseResults)

\* DiscoverServersWithProgress of the engine: the callback forwards to the
\* caller's channel, which a consumer drains at its own pace. The ports come
\* from the caller's list, scanned with one permit or with all, or from the
\* expansion, scanned with one permit
InitProgress ==
  /\ server = (27015 :> "a2s" @@ 27016 :> "a2s")
  /\ cancelled = FALSE
  /\ optPortRange \in {<<>>, <<27015, 27016>>}
  /\ specifiedPort \in {0, -1}
  /\ maxConcurrency \in (IF optPortRange = <<>> THEN {1} ELSE {0, 1})
  /\ withProgress = TRUE
  /\ mainpc = "begin"
  /\ ExpandIdle
  /\ ScanIdle
  /\ LegacyIdle
  /\ SingleIdle
  /\ CodecIdle
  /\ WireIdle
  /\ FnIdle

NextProgress == Next \/ AddressError \/ ReceiveProgress

SpecProgress == InitProgress /\ [][NextProgress]_vars

\* ------------------------------------------------------------------------
\* Claims about the expansion
\* ------------------------------------------------------------------------
InPass == mainpc \in {"up", "upEnd", "down", "downEnd"}
PassStep == IF mainpc \in {"up", "upEnd"} THEN 1 ELSE -1
DeadAt(i) == passLog[i].r = "dead"

\* C4: in each direction from a seed the ports are visited one by one outward,
\* and once three ports in a row were probed and found non-responsive the
\* direction is over: nothing farther from the seed is probed.
C4_StopsAfterThreeDead ==
  InPass =>
    LET n == Len(passLog) IN
      /\ \A i \in 1..n : passLog[i].port = seedPort + PassStep * i
      /\ \A i \in 1..(n - 3) : ~(DeadAt(i) /\ DeadAt(i + 1) /\ DeadAt(i + 2))
      /\ (n >= 3 /\ DeadAt(n - 2) /\ DeadAt(n - 1) /\ DeadAt(n))
           => mainpc \in {"upEnd", "downEnd"}

\* a direction that met a server behind a dead port, went on and then stopped
C4_Witness ==
  /\ mainpc = "upEnd"
  /\ Len(passLog) = 5
  /\ passLog[1].r = "dead" /\ passLog[2].r = "ok"
  /\ DeadAt(3) /\ DeadAt(4) /\ DeadAt(5)

\* C5 as claimed: the candidate set holds every seed port, responsive or not.
C5_SeedsAlwaysIncluded ==
  mainpc = "expanded" => SeedPorts \subseteq allPorts

\* C5 as amended: every seed port is probed; the candidate set holds a seed
\* only if a server answered there, and it does hold every seed that runs its
\* own protocol's server unless the call was cancelled.
C5_SeedsProbedKeptIfActive ==
  mainpc = "expanded" =>
    \A s \in SeedPorts :
      /\ s \in probed
      /\ s \in allPorts => ServerAt(s) # None
      /\ (ServerAt(s) # None /\ DefaultPort(ServerAt(s)) = s /\ ~cancelled)
           => s \in allPorts

\* an expansion that kept one seed and dropped another
C5_Witness ==
  /\ mainpc = "expanded"
  /\ \E s \in SeedPorts : s \in allPorts
  /\ \E s \in SeedPorts : s \notin allPorts /\ s \in probed

\* ------------------------------------------------------------------------
\* Legacy DiscoverServersWithProgress (query.go) up to the start of its scan:
\* the announcements on the progress channel and the concurrent expansion
\* discoverPortsDynamicallyWithProgress
\* ------------------------------------------------------------------------
\* `progressChan <- ScanProgress{...}`: a send that waits for room
CanSend == Len(progressChan) < ProgCap

\* an update of the expansion phase: TotalPorts is 0, "still discovering".
\* Its counters (portsChecked and serversFound as read under progressMux) are
\* left out of the message; the channel holds one such update per send
DiscoveryProgress ==
  [TotalPorts |-> 0, TotalProtocols |-> Cardinality(Protocols)]

\* the head of the scan loops from port p on: ports already in allPorts are
\* passed over; the upward loop ends above maxPort, the downward below minPort
RECURSIVE LoopHead(_, _, _, _)
LoopHead(seed, dir, p, all) ==
  IF dir = "up"
  THEN IF p > maxPort THEN LoopHead(seed, "down", seed - 1, all)
       ELSE IF p \in all THEN LoopHead(seed, "up", p + 1, all)
       ELSE [dir |-> "up", port |-> p]
  ELSE IF p < minPort THEN [dir |-> "done", port |-> p]
       ELSE IF p \in all THEN LoopHead(seed, "down", p - 1, all)
       ELSE [dir |-> "down", port |-> p]

\* lines 241-244: parseAddress; on its error the function returns at once,
\* and the progress channel is left as it is
LegacyParse ==
  /\ mainpc = "parse"
  /\ IF specifiedPort < 0
     THEN mainpc' = "done" /\ retErr' = "invalid address"
     ELSE mainpc' = "announce" /\ UNCHANGED retErr
  /\ UNCHANGED <<envVars, expVars, scanVars, progVars, legacyVars, codecVars, pureVars>>
  /\ UNCHANGED <<game, address, timeoutOpt, discoveryMode, candidates, tried, elapsed, retServers>>

\* line 260: the first announcement, then one goroutine per seed
Announce ==
  /\ mainpc = "announce"
  /\ CanSend
  /\ progressChan' = Append(progressChan, DiscoveryProgress)
  /\ spc' = [s \in SeedPorts |-> "sem"]
  /\ sdir' = [s \in SeedPorts |-> "seed"]
  /\ sport' = [s \in SeedPorts |-> s]
  /\ sfail' = [s \in SeedPorts |-> 0]
  /\ lsem' = 0
  /\ portsChecked' = 0
  /\ serversFound' = 0
  /\ allPorts' = {}
  /\ mainpc' = "seeds"
  /\ UNCHANGED <<auxVars, envVars, progressClosed>>
  /\ UNCHANGED <<seedsLeft, seedPort, port, consecutiveFailures, passLog, probed, lastCheck>>
  /\ UNCHANGED <<portsToScan, wpc, wlog, werr, wfound, wprog, sem, completed, results,
                 resultsClosed, servers>>

\* `semaphore <- struct{}{}` of the pool of maxDiscoveryWorkers, then the
\* count of the seed port under progressMux
SeedAcquire(s) ==
  /\ mainpc = "seeds"
  /\ spc[s] = "sem"
  /\ lsem < maxDiscoveryWorkers
  /\ lsem' = lsem + 1
  /\ portsChecked' = portsChecked + 1
  /\ spc' = [spc EXCEPT ![s] = "send"]
  /\ UNCHANGED <<auxVars, envVars, mainpc, expVars, scanVars, progVars, sdir, sport, sfail>>

\* `progressChan <- ScanProgress{...}` before a probe (lines 447, 493, 540)
SeedSend(s) ==
  /\ mainpc = "seeds"
  /\ spc[s] = "send"
  /\ CanSend
  /\ progressChan' = Append(progressChan, DiscoveryProgress)
  /\ spc' = [spc EXCEPT ![s] = "probe"]
  /\ UNCHANGED <<auxVars, envVars, mainpc, expVars, scanVars, progressClosed>>
  /\ UNCHANGED <<sdir, sport, sfail, lsem, portsChecked>>

\* hasActiveServer returns for the port of the iteration; the bookkeeping of
\* the result, then the loop goes on to its next port, to the other
\* direction, or the goroutine ends and gives its permit back
SeedProbe(s) ==
  /\ mainpc = "seeds"
  /\ spc[s] = "probe"
  /\ \E active \in hasActiveServer(sport[s], cancelled) :
       LET fresh == active /\ sport[s] \notin allPorts
           all == IF active THEN allPorts \cup {sport[s]} ELSE allPorts
           found == IF fresh THEN serversFound + 1 ELSE serversFound
           fails == IF active \/ sdir[s] = "seed" THEN 0 ELSE sfail[s] + 1
           broke == sdir[s] # "seed" /\ ~active /\ ShouldStop(fails)
           nxt == IF sdir[s] = "seed" THEN LoopHead(s, "up", s + 1, all)
                  ELSE IF sdir[s] = "up"
                  THEN IF broke THEN LoopHead(s, "down", s - 1, all)
                       ELSE LoopHead(s, "up", sport[s] + 1, all)
                  ELSE IF broke THEN [dir |-> "done", port |-> sport[s]]
                       ELSE LoopHead(s, "down", sport[s] - 1, all)
       IN /\ allPorts' = all
          /\ serversFound' = found
          /\ probed' = probed \cup {sport[s]}
          /\ sfail' = [sfail EXCEPT ![s] = IF nxt.dir = sdir[s] THEN fails ELSE 0]
          /\ sport' = [sport EXCEPT ![s] = nxt.port]
          /\ IF nxt.dir = "done"
             THEN /\ spc' = [spc EXCEPT ![s] = "done"]
                  /\ lsem' = lsem - 1
                  /\ UNCHANGED <<sdir, portsChecked>>
             ELSE /\ sdir' = [sdir EXCEPT ![s] = nxt.dir]
                  /\ portsChecked' = portsChecked + 1
                  /\ spc' = [spc EXCEPT ![s] = "send"]
                  /\ UNCHANGED lsem
  /\ UNCHANGED <<auxVars, envVars, mainpc, progVars>>
  /\ UNCHANGED <<seedsLeft, seedPort, port, consecutiveFailures, passLog, lastCheck>>
  /\ UNCHANGED <<portsToScan, wpc, wlog, werr, wfound, wprog, sem, completed, results,
                 resultsClosed, servers>>

RECURSIVE SortedSeq(_)
SortedSeq(S) ==
  IF S = {} THEN <<>>
  ELSE LET m == CHOOSE x \in S : \A y \in S : x <= y
       IN <<m>> \o SortedSeq(S \ {m})

\* wg.Wait returns, the ports are sorted (line 576)
SeedsDone ==
  /\ mainpc = "seeds"
  /\ \A s \in SeedPorts : spc[s] = "done"
  /\ portsToScan' = SortedSeq(allPorts)
  /\ mainpc' = "announce2"
  /\ UNCHANGED <<envVars, expVars, progVars, legacyVars, auxVars>>
  /\ UNCHANGED <<wpc, wlog, werr, wfound, wprog, sem, completed, serversFound,
                 results, resultsClosed, servers>>

\* line 297: the announcement of the scan; the scan that follows is the code
\* of executeDiscoveryQuery, lines 1322-1393
Announce2 ==
  /\ mainpc = "announce2"
  /\ CanSend
  /\ progressChan' = Append(progressChan, ScanProgress(0, 0))
  /\ mainpc' = "scan"
  /\ UNCHANGED <<envVars, expVars, scanVars, progressClosed, legacyVars, auxVars>>

HostsLegacy == {DefaultsHost, <<>>}

InitLegacy ==
  /\ server \in HostsLegacy
  /\ cancelled = FALSE
  /\ optPortRange = <<>>
  /\ specifiedPort \in {0, -1}
  /\ maxConcurrency \in {1, 2}
  /\ withProgress = TRUE
  /\ mainpc = "parse"
  /\ ExpandIdle
  /\ ScanIdle
  /\ LegacyIdle
  /\ SingleIdle
  /\ CodecIdle
  /\ WireIdle
  /\ FnIdle

NextLegacy ==
  \/ LegacyParse
  \/ Announce
  \/ \E s \in DOMAIN spc : SeedAcquire(s) \/ SeedSend(s) \/ SeedProbe(s)
  \/ SeedsDone
  \/ Announce2
  \/ ReceiveProgress
  \/ Cancel

SpecLegacy == InitLegacy /\ [][NextLegacy]_vars

\* ------------------------------------------------------------------------
\* Claims about the discovery scan
\* ------------------------------------------------------------------------
\* queries between the start of proto.Query and its return
InFlight == {w \in Workers : wpc[w] \in {"dial", "io"}}
\* everything a call has produced so far, collected or still in the channel
Produced == servers \o results
PortsOf(q) == {q[i].port : i \in DOMAIN q}

\* C3: default discovery of a host whose only servers sit on the default
\* ports 25565 and 27015 returns, unless the caller cancels, exactly one
\* ServerInfo for each of the two ports and nothing else, whatever the map
\* orders and the interleaving of the workers were.
C3_OnePerResponsivePort ==
  (/\ mainpc = "done"
   /\ server = DefaultsHost
   /\ optPortRange = <<>> /\ specifiedPort = 0
   /\ ~cancelled)
  => /\ Len(servers) = 2
     /\ PortsOf(servers) = {25565, 27015}
     /\ \A i \in DOMAIN servers : servers[i].proto = server[servers[i].port]

\* the call has returned both servers, the one of port 27015 first
C3_Witness ==
  /\ mainpc = "done"
  /\ server = DefaultsHost
  /\ optPortRange = <<>> /\ specifiedPort = 0
  /\ ~cancelled
  /\ Len(servers) = 2
  /\ servers[1].port = 27015
  /\ servers[2].port = 25565

\* C6: a worker has one protocol query at a time, queries nothing more on its
\* port once a protocol succeeded there, and the result holds at most one
\* ServerInfo per scanned port.
C6_OneResultPerPort ==
  /\ \A w \in Workers : wfound[w] => wpc[w] \in {"notify", "done"}
  /\ \A i, j \in DOMAIN Produced :
       i # j => Produced[i].port # Produced[j].port

\* a returned list with two entries of one port
C6_Witness ==
  /\ mainpc = "done"
  /\ Len(servers) = 2
  /\ servers[1].port = servers[2].port

\* C8: once ctx is cancelled, a query that is in a socket read or write ends
\* by the cancellation, not by what its socket does next, and a worker that
\* waits for a permit leaves.
C8_CancelAbortsInFlight ==
  [][\A w \in Workers :
       /\ (cancelled /\ wpc[w] = "io" /\ wpc'[w] # "io") => werr'[w] = "ctx"
       /\ (cancelled /\ wpc[w] = "acquire" /\ sem = SemCap /\ wpc'[w] # "acquire")
            => wpc'[w] = "done"]_vars

\* a read that was in flight when ctx was cancelled has run into its deadline
C8_Witness ==
  \E w \in Workers : cancelled /\ wpc[w] = "notify" /\ werr[w] = "timeout"

\* ------------------------------------------------------------------------
\* Claims about the permit gates and the progress sends
\* ------------------------------------------------------------------------
\* seed goroutines inside hasActiveServer: a dial or a protocol query of
\* theirs is on the wire
Probing == {s \in DOMAIN spc : spc[s] = "probe"}

\* C1: with MaxConcurrency = k > 0 at most k protocol queries are in flight at
\* any moment of a discovery call, in the expansion as in the scan.
C1_AtMostKInFlight ==
  maxConcurrency > 0 =>
    Cardinality(InFlight) + Cardinality(Probing) <= maxConcurrency

\* three probes of the legacy expansion in flight under MaxConcurrency = 1
C1_Witness ==
  /\ maxConcurrency = 1
  /\ Cardinality(Probing) = 3

\* C2: whoever stands at a progress send, the caller's goroutine with an
\* announcement, an expansion goroutine, or a scan worker with the update of
\* an attempt, can complete it at once, whatever the state of the channel.
C2_ProgressSendNeverBlocks ==
  /\ mainpc = "announce" => ENABLED Announce
  /\ mainpc = "announce2" => ENABLED Announce2
  /\ \A s \in DOMAIN spc : spc[s] = "send" => ENABLED SeedSend(s)
  /\ mainpc = "ports" => ENABLED StartScan
  /\ \A w \in Workers : wpc[w] = "notify" => ENABLED Notify(w)

\* every expansion goroutine waits at its send behind a full channel
C2_Witness ==
  /\ ~CanSend
  /\ \A s \in DOMAIN spc : spc[s] = "send"
  /\ DOMAIN spc # {}

\* ------------------------------------------------------------------------
\* Single query: Query -> QueryEngine.executeSingleQuery
\* ------------------------------------------------------------------------
\* DefaultOptions: Timeout 5 s
DefaultTimeout == 100
\* a caller's Timeout(1 * time.Second)
ShortTimeout == 20

\* fmt.Sprintf("%d", n) for n >= 0: the decimal digits, as characters
RECURSIVE FormatInt(_)
FormatInt(n) == IF n < 10 THEN <<48 + n>> ELSE Append(FormatInt(n \div 10), 48 + (n % 10))

\* the number the leading decimal digits of str spell, after acc
RECURSIVE DigitsValue(_, _)
DigitsValue(str, acc) ==
  IF str = <<>> \/ Head(str) < 48 \/ Head(str) > 57 THEN acc
  ELSE DigitsValue(Tail(str), 10 * acc + (Head(str) - 48))

\* three of the games Register enters as aliases of "a2s"
GameAliases == {"valheim", "satisfactory", "rust"}

\* "quake" stands for a game no protocol is registered for
Games == Protocols \cup GameAliases \cup {"quake"}

\* Registry.Get: the protocol of a protocol name or of an alias
Get(name) ==
  IF name \in Protocols THEN name
  ELSE IF name \in GameAliases THEN "a2s"
  ELSE None

\* GameConfig.QueryPort of GetGameConfig(name)
QueryPort(name) ==
  CASE name = "valheim" -> 2457
    [] name = "satisfactory" -> 15777
    [] name = "rust" -> 28015
    [] OTHER -> DefaultPort(Get(name))

\* a port number above 65535 that strconv.Atoi accepts
BeyondMaxPort == 70000

\* the addresses of the runs: "", "host", "host:", "host:x" and "host:<n>"
Addresses ==
  {[form |-> "empty", portStr |-> <<>>], [form |-> "host", portStr |-> <<>>]}
  \cup {[form |-> "hostport", portStr |-> str] :
          str \in {<<>>, <<120>>}
                  \cup {FormatInt(n) : n \in {minPort + 1, maxPort - 1, BeyondMaxPort}}}

\* strconv.Atoi of a string without a sign; -1: the error
Atoi(str) ==
  IF str = <<>> \/ \E i \in 1..Len(str) : str[i] < 48 \/ str[i] > 57 THEN -1
  ELSE DigitsValue(str, 0)

\* parseAddress(addr, optPort, defaultPort)
parseAddress(addr, optPort, defaultPort) ==
  IF addr.form = "empty" THEN [err |-> "address cannot be empty", port |-> 0]
  ELSE IF addr.form = "host"
    THEN [err |-> None, port |-> IF optPort = 0 THEN defaultPort ELSE optPort]
  ELSE IF Atoi(addr.portStr) = -1 THEN [err |-> "invalid port", port |-> 0]
  ELSE [err |-> None, port |-> Atoi(addr.portStr)]

\* executeSingleQuery's parseAddress(req.Address, req.Options.Port,
\* proto.DefaultPort()); Options.Port is not set in these runs
ParsedAddress == parseAddress(address, specifiedPort, DefaultPort(Get(game)))

\* the game is registered and the address parses
SingleValid == Get(game) # None /\ ParsedAddress.err = None

\* mainPort of SinglePortStrategy.GetPorts
MainPort == IF ParsedAddress.port = 0 THEN DefaultPort(Get(game)) ELSE ParsedAddress.port

\* the hosts of the single-query runs: nothing, one server within three
\* ports of the target, or one on each side of it
HostsAround(t) ==
  LET near == {q \in (t - adjacentPortRange)..(t + adjacentPortRange) : q <= maxPort}
  IN IF t > maxPort THEN {<<>>}
     ELSE {<<>>}
          \cup UNION {[{q} -> Protocols] : q \in near}
          \cup {(t + 1 :> p1) @@ (t - 1 :> p2) : p1, p2 \in Protocols}

\* SinglePortStrategy.GetPorts: `for offset := 1; offset <= adjacentPortRange`
RECURSIVE AdjacentPorts(_, _)
AdjacentPorts(mainPort, offset) ==
  IF offset > adjacentPortRange THEN <<>>
  ELSE (IF mainPort + offset <= 65535 THEN <<mainPort + offset>> ELSE <<>>)
       \o (IF mainPort - offset >= 1024 THEN <<mainPort - offset>> ELSE <<>>)
       \o AdjacentPorts(mainPort, offset + 1)

SinglePortsMutant(mainPort) == <<mainPort>> \o AdjacentPorts(mainPort, 2)
SinglePorts(mainPort) == <<mainPort>> \o AdjacentPorts(mainPort, 1)

\* the ServerInfo of an online answer after setServerInfoFields: `info.Port =
\* port` is the port that was queried; nothing assigns QueryPort
QueriedInfo(proto, q) == [Online |-> TRUE, port |-> q, QueryPort |-> 0, proto |-> proto]

\* what Query and AutoDetect hand to their caller once Execute has returned:
\* `nil, result.Error`, or `nil, "no responsive server found at ..."` for an
\* empty list, else `result.Servers[0], nil`. isNil: the *ServerInfo is nil
QueryReturnMutant ==
  IF retErr # None
    THEN [isNil |-> FALSE, info |-> [Online |-> FALSE], err |-> retErr]
  ELSE IF Len(retServers) = 0
    THEN [isNil |-> TRUE, info |-> [Online |-> FALSE], err |-> "no responsive server"]
  ELSE [isNil |-> FALSE, info |-> retServers[1], err |-> None]
QueryReturn ==
  IF retErr # None
    THEN [isNil |-> TRUE, info |-> [Online |-> FALSE], err |-> retErr]
  ELSE IF Len(retServers) = 0
    THEN [isNil |-> TRUE, info |-> [Online |-> FALSE], err |-> "no responsive server"]
  ELSE [isNil |-> FALSE, info |-> retServers[1], err |-> None]

\* the Options struct behind req.Options as it is now
ReqOptions == [Timeout |-> timeoutOpt, Port |-> specifiedPort, DiscoveryMode |-> discoveryMode]

\* getTimeout: the discovery timeout in discovery mode, else Options.Timeout
getTimeout(opts) == IF opts.DiscoveryMode THEN DiscoveryTimeout ELSE opts.Timeout

\* createDiscoveryOptions: `discoveryOptions := *baseOptions`, a copy by
\* value, DiscoveryMode set on the copy; opts: what is returned, base: the
\* struct behind baseOptions afterwards
createDiscoveryOptionsMutant(baseOptions) ==
  [opts |-> [baseOptions EXCEPT !.DiscoveryMode = TRUE],
   base |-> [baseOptions EXCEPT !.DiscoveryMode = TRUE]]
createDiscoveryOptions(baseOptions) ==
  [opts |-> [baseOptions EXCEPT !.DiscoveryMode = TRUE],
   base |-> baseOptions]

\* GetProtocol, parseAddress, strategy.GetPorts
SingleBegin ==
  /\ mainpc = "single"
  /\ IF Get(game) = None
       THEN /\ retErr' = "unsupported game"
            /\ mainpc' = "done"
            /\ UNCHANGED candidates
       ELSE IF ParsedAddress.err # None
         THEN /\ retErr' = "invalid address"
              /\ mainpc' = "done"
              /\ UNCHANGED candidates
       ELSE /\ candidates' = SinglePorts(MainPort)
            /\ mainpc' = "primary"
            /\ UNCHANGED retErr
  /\ UNCHANGED <<envVars, expVars, scanVars, progVars, legacyVars, codecVars, pureVars>>
  /\ UNCHANGED <<game, address, timeoutOpt, discoveryMode, tried, elapsed, retServers>>

\* queryWithServerInfo(ctx, proto, host, ports[0], req.Options): the game's
\* own protocol under Options.Timeout
Primary ==
  /\ mainpc = "primary"
  /\ \E o \in QueryOutcomes(Get(game), candidates[1], cancelled) :
       /\ tried' = Append(tried, [port |-> candidates[1], ok |-> o = "ok",
                                  discovery |-> ReqOptions.DiscoveryMode])
       /\ elapsed' = elapsed + (IF o = "timeout" THEN getTimeout(ReqOptions) ELSE 0)
       /\ IF o = "ok"
            THEN /\ retServers' = <<QueriedInfo(Get(game), candidates[1])>>
                 /\ mainpc' = "done"
                 /\ UNCHANGED discoveryMode
            ELSE /\ mainpc' = "adjacent"
                 /\ discoveryMode' = createDiscoveryOptions(ReqOptions).base.DiscoveryMode
                 /\ UNCHANGED retServers
  /\ UNCHANGED <<envVars, expVars, scanVars, progVars, legacyVars, codecVars, pureVars>>
  /\ UNCHANGED <<game, address, timeoutOpt, candidates, retErr>>

\* one round of `for i, testPort := range ports[1:]`: tryProtocolsOnPort
\* under ctx itself, each protocol with the discovery timeout
AdjacentPort ==
  /\ mainpc = "adjacent"
  /\ Len(tried) < Len(candidates)
  /\ LET q == candidates[Len(tried) + 1]
         discoveryOptions == createDiscoveryOptions(ReqOptions).opts
     IN
     \E r \in tryProtocolsOnPort(q, cancelled, FALSE, getTimeout(discoveryOptions)) :
       /\ tried' = Append(tried, [port |-> q, ok |-> r.ok,
                                  discovery |-> discoveryOptions.DiscoveryMode])
       /\ elapsed' = elapsed + r.cost
       /\ IF r.ok
            THEN /\ retServers' = <<QueriedInfo(r.proto, q)>>
                 /\ mainpc' = "done"
            ELSE UNCHANGED <<retServers, mainpc>>
  /\ UNCHANGED <<envVars, expVars, scanVars, progVars, legacyVars, codecVars, pureVars>>
  /\ UNCHANGED <<game, address, timeoutOpt, discoveryMode, candidates, retErr>>

\* the loop ran out: "no responsive server found at ... or adjacent ports"
AllFailed ==
  /\ mainpc = "adjacent"
  /\ Len(tried) = Len(candidates)
  /\ retErr' = "no responsive server"
  /\ mainpc' = "done"
  /\ UNCHANGED <<envVars, expVars, scanVars, progVars, legacyVars, codecVars, pureVars>>
  /\ UNCHANGED <<game, address, timeoutOpt, discoveryMode, candidates, tried, elapsed, retServers>>

InitSingle ==
  /\ game \in Games
  /\ address \in Addresses
  /\ specifiedPort = 0
  /\ timeoutOpt \in {ShortTimeout, DefaultTimeout}
  /\ discoveryMode = FALSE
  /\ server \in IF SingleValid
                  THEN HostsAround(MainPort) \cup {(QueryPort(game) :> Get(game))}
                  ELSE HostsAround(DefaultPort("a2s"))
  /\ cancelled = FALSE
  /\ optPortRange = <<>>
  /\ maxConcurrency = 0
  /\ withProgress = FALSE
  /\ mainpc = "single"
  /\ candidates = <<>>
  /\ tried = <<>>
  /\ elapsed = 0
  /\ retServers = <<>>
  /\ retErr = None
  /\ ExpandIdle
  /\ ScanIdle
  /\ LegacyIdle
  /\ CodecIdle
  /\ WireIdle
  /\ FnIdle

NextSingle == Cancel \/ SingleBegin \/ Primary \/ AdjacentPort \/ AllFailed

SpecSingle == InitSingle /\ [][NextSingle]_vars

\* ------------------------------------------------------------------------
\* C7: single query, order of the candidates and what ends the call
\* ------------------------------------------------------------------------
\* C7: for a registered game the ports are attempted in the order target,
\* +1, -1, +2, -2, +3, -3 (ports outside 1024..65535 left out); a candidate
\* that fails is followed by the next one; the server returned is the first
\* candidate that succeeded; the error is returned only after every
\* candidate was attempted and failed, and without cancellation that means
\* no candidate had a server to answer.
C7_CandidatesInOrderFirstSuccess ==
  (SingleValid /\ MainPort <= maxPort) =>
    LET t == MainPort
        order == <<t>> \o SelectSeq(<<t + 1, t - 1, t + 2, t - 2, t + 3, t - 3>>,
                                    LAMBDA q : q >= minPort /\ q <= maxPort)
    IN /\ Len(tried) <= Len(order)
       /\ \A i \in 1..Len(tried) : tried[i].port = order[i]
       /\ \A i \in 1..(Len(tried) - 1) : ~tried[i].ok
       /\ (tried # <<>> /\ ~Last(tried).ok /\ Len(tried) < Len(order))
            => mainpc = "adjacent"
       /\ (mainpc = "done" /\ retServers # <<>>)
            => /\ retErr = None
               /\ Last(tried).ok
               /\ retServers[1].port = Last(tried).port
       /\ (mainpc = "done" /\ retErr # None)
            => /\ retServers = <<>>
               /\ Len(tried) = Len(order)
               /\ \A i \in 1..Len(tried) : ~tried[i].ok
               /\ ~cancelled => /\ ServerAt(t) # Get(game)
                                /\ \A i \in 2..Len(order) : ServerAt(order[i]) = None

\* the +1 and -1 candidates failed and the server on +2 was returned
C7_Witness ==
  /\ mainpc = "done"
  /\ SingleValid
  /\ ~cancelled
  /\ Len(tried) = 4
  /\ retServers # <<>>
  /\ retServers[1].port = MainPort + 2

\* ------------------------------------------------------------------------
\* C10: single query to an address where nothing responds
\* ------------------------------------------------------------------------
\* C10: when no server runs on the host, a single query for a registered
\* game ends with an error and no ServerInfo, and the whole call takes no
\* longer than about Options.Timeout (here: at most twice the Timeout).
C10_UnresponsiveWithinTimeout ==
  (mainpc = "done" /\ SingleValid /\ MainPort <= maxPort /\ server = <<>>)
    => /\ retErr # None
       /\ retServers = <<>>
       /\ elapsed <= 2 * timeoutOpt

\* every attempt ran into its deadline: the primary one under Timeout, then
\* each protocol on each adjacent port under the discovery timeout
C10_Witness ==
  /\ mainpc = "done"
  /\ SingleValid
  /\ MainPort <= maxPort
  /\ server = <<>>
  /\ ~cancelled
  /\ retErr # None
  /\ elapsed = timeoutOpt
               + (Len(candidates) - 1) * Cardinality(Protocols) * DiscoveryTimeout

\* ------------------------------------------------------------------------
\* C14: the port a single query targets when none is given
\* ------------------------------------------------------------------------
\* C14: when the address names no port and Options.Port is not set, the
\* first port a single query for a registered game attempts is the
\* QueryPort of that game's configuration.
C14_FirstTargetIsGameQueryPort ==
  (SingleValid /\ address.form = "host" /\ specifiedPort = 0 /\ tried # <<>>)
    => tried[1].port = QueryPort(game)

\* a Valheim server answers on 2457; the query for "valheim" starts at 27015,
\* goes through its neighbours and ends without a server
C14_Witness ==
  /\ mainpc = "done"
  /\ game = "valheim"
  /\ address.form = "host"
  /\ ~cancelled
  /\ ServerAt(QueryPort(game)) = "a2s"
  /\ tried[1].port = DefaultPort("a2s")
  /\ \A i \in 1..Len(tried) : tried[i].port # QueryPort(game)
  /\ retErr = "no responsive server"

\* ------------------------------------------------------------------------
\* C17: addresses and games that cannot be queried
\* ------------------------------------------------------------------------
\* C17: for an empty address, an address whose port part is empty or is not
\* a port number (1..65535), or a game that is not registered, Query ends
\* with an error and attempts no query on any port.
C17_BadInputFailsAtOnce ==
  (\/ Get(game) = None
   \/ address.form = "empty"
   \/ address.form = "hostport" /\ Atoi(address.portStr) \notin 1..maxPort)
    => /\ tried = <<>>
       /\ mainpc = "done" => retErr # None /\ retServers = <<>>

\* "host:70000": the port was attempted, then the three ports below it
C17_Witness ==
  /\ mainpc = "done"
  /\ Get(game) # None
  /\ address = [form |-> "hostport", portStr |-> FormatInt(BeyondMaxPort)]
  /\ Len(tried) = 4
  /\ tried[1].port = BeyondMaxPort
  /\ retErr = "no responsive server"

\* ------------------------------------------------------------------------
\* Auto-detection (executeAutoDetectQuery)
\* ------------------------------------------------------------------------
\* Protocol.DefaultQueryPort
DefaultQueryPort(p) ==
  CASE p = "a2s" -> 27015
    [] p = "minecraft" -> 25565
    [] p = "terraria" -> 7777

\* the popularityOrder literal of getProtocolsByPopularity
popularityOrder == <<"minecraft", "source", "terraria", "rust">>

\* `for _, name := range popularityOrder`: the protocol GetProtocol finds
\* for each name that it knows
RECURSIVE Listed(_)
Listed(names) ==
  IF names = <<>> THEN <<>>
  ELSE (IF Get(Head(names)) # None THEN <<Get(Head(names))>> ELSE <<>>)
       \o Listed(Tail(names))

\* getProtocolsByPopularity: the listed ones, then every protocol whose own
\* name was not marked in `used`, in map order
getProtocolsByPopularity ==
  LET used == {name \in Range(popularityOrder) : Get(name) # None}
  IN {Listed(popularityOrder) \o rest : rest \in Perms(Protocols \ used)}

\* getProtocolsByPortPreference: the protocols with this default port, then
\* the remaining ones, each group in map order
getProtocolsByPortPreferenceMutant(p) ==
  LET matching == {proto \in Protocols : DefaultPort(proto) = p}
  IN {r \o m : m \in Perms(matching), r \in Perms(Protocols \ matching)}
getProtocolsByPortPreference(p) ==
  LET matching == {proto \in Protocols : DefaultPort(proto) = p}
  IN {m \o r : m \in Perms(matching), r \in Perms(Protocols \ matching)}

\* the attempts of one loop: on the given port, without one on the
\* protocol's default port
Attempts(order, p) ==
  [i \in 1..Len(order) |->
     [proto |-> order[i], port |-> IF p = 0 THEN DefaultPort(order[i]) ELSE p]]

\* parseAddress(req.Address, req.Options.Port, 0), the two protocol lists
AutoBegin ==
  /\ mainpc = "auto"
  /\ LET r == parseAddress(address, specifiedPort, 0)
     IN IF r.err # None
          THEN /\ retErr' = "invalid address"
               /\ mainpc' = "done"
               /\ UNCHANGED candidates
          ELSE /\ \E pref \in IF r.port # 0 THEN getProtocolsByPortPreference(r.port)
                               ELSE {<<>>} :
                    \E pop \in getProtocolsByPopularity :
                      candidates' = Attempts(pref, r.port) \o Attempts(pop, r.port)
               /\ mainpc' = "detect"
               /\ UNCHANGED retErr
  /\ UNCHANGED <<envVars, expVars, scanVars, progVars, legacyVars, codecVars, pureVars>>
  /\ UNCHANGED <<game, address, timeoutOpt, discoveryMode, tried, elapsed, retServers>>

\* one round of either loop: queryWithServerInfo, `if err == nil && info.Online`
AutoAttempt ==
  /\ mainpc = "detect"
  /\ Len(tried) < Len(candidates)
  /\ LET c == candidates[Len(tried) + 1] IN
     \E o \in QueryOutcomes(c.proto, c.port, cancelled) :
       /\ tried' = Append(tried, [proto |-> c.proto, port |-> c.port, ok |-> o = "ok"])
       /\ elapsed' = elapsed + (IF o = "timeout" THEN timeoutOpt ELSE 0)
       /\ IF o = "ok"
            THEN /\ retServers' = <<QueriedInfo(c.proto, c.port)>>
                 /\ mainpc' = "done"
            ELSE UNCHANGED <<retServers, mainpc>>
  /\ UNCHANGED <<envVars, expVars, scanVars, progVars, legacyVars, codecVars, pureVars>>
  /\ UNCHANGED <<game, address, timeoutOpt, discoveryMode, candidates, retErr>>

\* both loops ran out: "no responsive server found at ..."
AutoFailed ==
  /\ mainpc = "detect"
  /\ Len(tried) = Len(candidates)
  /\ retErr' = "no responsive server"
  /\ mainpc' = "done"
  /\ UNCHANGED <<envVars, expVars, scanVars, progVars, legacyVars, codecVars, pureVars>>
  /\ UNCHANGED <<game, address, timeoutOpt, discoveryMode, candidates, tried, elapsed, retServers>>

\* the ports named in the addresses of these runs: the default ports and
\* the game port of Rust, which is no protocol's default
AutoPorts == {DefaultPort(p) : p \in Protocols} \cup {QueryPort("rust")}

AutoAddresses ==
  {[form |-> "empty", portStr |-> <<>>], [form |-> "host", portStr |-> <<>>]}
  \cup {[form |-> "hostport", portStr |-> str] :
          str \in {<<>>} \cup {FormatInt(n) : n \in AutoPorts}}

\* the hosts: any servers on the default ports, or one on Rust's port
AutoHosts ==
  UNION {[S -> Protocols] : S \in SUBSET {DefaultPort(p) : p \in Protocols}}
  \cup {(QueryPort("rust") :> p) : p \in Protocols}

InitAuto ==
  /\ game = None
  /\ address \in AutoAddresses
  /\ specifiedPort = 0
  /\ timeoutOpt \in {ShortTimeout, DefaultTimeout}
  /\ discoveryMode = FALSE
  /\ server \in AutoHosts
  /\ cancelled = FALSE
  /\ optPortRange = <<>>
  /\ maxConcurrency = 0
  /\ withProgress = FALSE
  /\ mainpc = "auto"
  /\ candidates = <<>>
  /\ tried = <<>>
  /\ elapsed = 0
  /\ retServers = <<>>
  /\ retErr = None
  /\ ExpandIdle
  /\ ScanIdle
  /\ LegacyIdle
  /\ CodecIdle
  /\ WireIdle
  /\ FnIdle

NextAuto == Cancel \/ AutoBegin \/ AutoAttempt \/ AutoFailed

SpecAuto == InitAuto /\ [][NextAuto]_vars

\* ------------------------------------------------------------------------
\* C15: auto-detection without a port
\* ------------------------------------------------------------------------
\* C15: when the address names no port, the attempts are, in this order,
\* Minecraft on 25565, A2S on 27015, Terraria on 7777 (no protocol is
\* unlisted); an attempt that fails is followed by the next, the first one
\* that succeeds is returned, and the error comes only after all failed.
C15_PopularityOrder ==
  (mainpc \in {"detect", "done"} /\ address.form = "host")
    => LET order == Attempts(<<"minecraft", "a2s", "terraria">>, 0)
       IN /\ Len(tried) <= Len(order)
          /\ \A i \in 1..Len(tried) :
               tried[i].proto = order[i].proto /\ tried[i].port = order[i].port
          /\ \A i \in 1..(Len(tried) - 1) : ~tried[i].ok
          /\ (mainpc = "done" /\ retServers # <<>>)
               => Last(tried).ok /\ retServers[1].proto = Last(tried).proto
          /\ (mainpc = "done" /\ retErr # None)
               => Len(tried) = Len(order) /\ \A i \in 1..Len(tried) : ~tried[i].ok

\* the host runs an A2S server on 27015 and a Terraria server on 7777; the
\* second attempt went to Terraria, which was returned
C15_Witness ==
  /\ mainpc = "done"
  /\ address.form = "host"
  /\ ServerAt(27015) = "a2s"
  /\ ServerAt(7777) = "terraria"
  /\ Len(tried) = 2
  /\ tried[2].proto = "terraria"
  /\ Len(retServers) = 1
  /\ retServers[1].port = 7777
  /\ retServers[1].proto = "terraria"

\* ------------------------------------------------------------------------
\* C16: auto-detection with a port
\* ------------------------------------------------------------------------
\* C16: when the address names port P, every attempt is made on P, and an
\* attempt of a protocol whose default port and default query port both
\* differ from P comes only after every protocol with one of them equal to
\* P was attempted.
C16_MatchingProtocolsFirst ==
  LET r == parseAddress(address, specifiedPort, 0)
      matches(p) == DefaultPort(p) = r.port \/ DefaultQueryPort(p) = r.port
  IN (r.err = None /\ r.port # 0)
       => \A i \in 1..Len(tried) :
            /\ tried[i].port = r.port
            /\ ~matches(tried[i].proto)
                 => \A m \in Protocols :
                      matches(m) => \E k \in 1..(i - 1) : tried[k].proto = m

\* "host:7777": Terraria was attempted first and failed, another protocol
\* second
C16_Witness ==
  /\ address = [form |-> "hostport", portStr |-> FormatInt(7777)]
  /\ Len(tried) >= 2
  /\ tried[1] = [proto |-> "terraria", port |-> 7777, ok |-> FALSE]
  /\ tried[2].proto # "terraria"

\* ------------------------------------------------------------------------
\* The codecs: one Protocol.Query call and the ServerInfo it returns
\* ------------------------------------------------------------------------
\* players the queried server reports at most
MaxPlayers == 3

\* the longest a connection setup or a round trip takes, in milliseconds
MaxDelay == 1

\* `return &ServerInfo{Online: false}, err`
Fail(e) == [OfflineInfo EXCEPT !.err = e]

\* the ServerInfo literal of a parsed answer; Players.List not set
OnlineInfo(n, ping) ==
  [Online |-> TRUE, Current |-> n, ListNil |-> TRUE, ListLen |-> 0, Ping |-> ping,
   err |-> None]

\* Players.List = a slice of n players (make([]Player, 0) for n = 0)
WithList(info, n) == [info EXCEPT !.ListNil = FALSE, !.ListLen = n]

CodecReturn(info) ==
  /\ cdResult' = info
  /\ cdpc' = "done"

\* d milliseconds pass
Tick(d) == cdClock' = [cdClock EXCEPT !.total = @ + d]

\* `pingStart := time.Now()`, and d milliseconds pass until conn.Read returns
TickFirst(d) == cdClock' = [total |-> cdClock.total + d, first |-> d]

offCodec == <<envVars, mainpc, expVars, scanVars, progVars, legacyVars, singleVars, pureVars>>

\* setupConnection, "udp" for A2S and "tcp" for the others
CodecConnect ==
  /\ cdpc = "connect"
  /\ \E d \in 0..MaxDelay : Tick(d)
  /\ \/ CodecReturn(Fail("dial"))
     \/ /\ cdpc' = IF cdProto = "terraria" THEN "tshock" ELSE "write"
        /\ UNCHANGED cdResult
  /\ UNCHANGED <<offCodec, cdProto, cdPlayers, cdSent>>

\* the endpoints literal of queryTShockAPI
endpointsMutant == <<"/status", "/v2/server/status", "/v3/server/status">>
endpoints == <<"/v2/server/status", "/status", "/v3/server/status">>

\* one round of `for _, endpoint := range endpoints`: client.Do failed, the
\* status was not 200 or the body did not decode (continue), or the answer
\* was usable and Query returns it with `List: make([]Player, 0)`; after
\* the last endpoint "TShock API not available" and the native protocol
CodecTShock ==
  /\ cdpc = "tshock"
  /\ LET i == Len(cdSent) + 1 IN
     \E d \in 0..MaxDelay :
       /\ cdClock' = [total |-> cdClock.total + d, first |-> cdClock.first + d]
       /\ \/ /\ cdSent' = Append(cdSent, [req |-> endpoints[i], usable |-> TRUE])
             /\ \E n \in 0..MaxPlayers :
                  CodecReturn(WithList(OnlineInfo(n, cdClock.first + d), 0))
          \/ /\ cdSent' = Append(cdSent, [req |-> endpoints[i], usable |-> FALSE])
             /\ cdpc' = IF i = Len(endpoints) THEN "write" ELSE "tshock"
             /\ UNCHANGED cdResult
  /\ UNCHANGED <<offCodec, cdProto, cdPlayers>>

\* the errors of sending the request
WriteErrors(proto) ==
  CASE proto = "a2s" -> {"write failed"}
    [] proto = "minecraft" -> {"handshake failed", "status request failed"}
    [] proto = "terraria" -> {"write server info request failed"}

\* conn.Write of the first request; Terraria: the server info request packet
CodecWrite ==
  /\ cdpc = "write"
  /\ \/ \E e \in WriteErrors(cdProto) : CodecReturn(Fail(e))
     \/ /\ cdpc' = "read"
        /\ UNCHANGED cdResult
  /\ cdSent' = IF cdProto = "terraria"
                 THEN Append(cdSent, [req |-> "native", usable |-> FALSE])
                 ELSE IF cdProto = "a2s"
                 THEN Append(cdSent, [req |-> "info", reply |-> "pending"])
                 ELSE cdSent
  /\ UNCHANGED <<offCodec, cdProto, cdPlayers, cdClock>>

\* A2S after a parsed A2S_INFO payload: `if opts.Players` the player query
\* follows, else the result is returned as it is
A2SInfoParsed(n, ping) ==
  IF cdPlayers
    THEN /\ cdResult' = OnlineInfo(n, ping)
         /\ cdpc' = "players"
    ELSE CodecReturn(OnlineInfo(n, ping))

\* the datagram a conn.Read of the A2S codec returns, by kind: nothing
\* before the deadline, fewer than 5 bytes, a challenge (0x41) of fewer than
\* 9 bytes, a challenge, the answer asked for, another type
Replies == {"none", "short", "shortchallenge", "challenge", "answer", "other"}

\* the reply to the last request is noted
Replied(kind) == cdSent' = [cdSent EXCEPT ![Len(cdSent)].reply = kind]

\* A2SProtocol.Query from conn.Read on: the ping, the dispatch on the fifth
\* byte
A2SRead ==
  /\ cdpc = "read"
  /\ cdProto = "a2s"
  /\ \E d \in 0..MaxDelay : \E kind \in Replies :
       /\ TickFirst(d)
       /\ Replied(kind)
       /\ CASE kind = "none" -> CodecReturn(Fail("read failed"))
            [] kind = "short" -> CodecReturn(Fail("response too short"))
            [] kind = "shortchallenge" -> CodecReturn(Fail("challenge response too short"))
            [] kind = "challenge" -> cdpc' = "challenge" /\ UNCHANGED cdResult
            [] kind = "other" -> CodecReturn(Fail("unexpected response type"))
            [] kind = "answer" ->
                 \/ CodecReturn(Fail("parse failed"))
                 \/ \E n \in 0..MaxPlayers : A2SInfoParsed(n, d)
  /\ UNCHANGED <<offCodec, cdProto, cdPlayers>>

\* queryWithChallenge after its conn.Read: `n < 5 || response[4] != 0x49` is
\* the error "invalid challenge response", whatever else was read
ChallengedReplyMutant(kind) ==
  CASE kind = "none" -> "read challenge response failed"
    [] kind \in {"answer", "challenge"} -> "parse"
    [] OTHER -> "invalid challenge response"
ChallengedReply(kind) ==
  CASE kind = "none" -> "read challenge response failed"
    [] kind = "answer" -> "parse"
    [] OTHER -> "invalid challenge response"

\* queryWithChallenge: the request again with the challenge, one read,
\* `ping := initialPing`
A2SChallenge ==
  /\ cdpc = "challenge"
  /\ \E d \in 0..MaxDelay : Tick(d)
  /\ \/ /\ CodecReturn(Fail("write challenge failed"))
        /\ UNCHANGED cdSent
     \/ \E kind \in Replies :
          /\ cdSent' = Append(cdSent, [req |-> "info", reply |-> kind])
          /\ IF ChallengedReply(kind) = "parse"
               THEN \/ CodecReturn(Fail("parse challenge response failed"))
                    \/ \E n \in 0..MaxPlayers : A2SInfoParsed(n, cdClock.first)
               ELSE CodecReturn(Fail(ChallengedReply(kind)))
  /\ UNCHANGED <<offCodec, cdProto, cdPlayers>>

\* queryPlayers and what Query does with its answer: the request, on a
\* challenge the request once more, then `response[4] != 0x44` is an error;
\* the parsed players, or an empty list when queryPlayers failed
A2SPlayers ==
  /\ cdpc = "players"
  /\ \E d \in 0..MaxDelay : Tick(d)
  /\ \/ /\ CodecReturn(WithList(cdResult, 0))
        /\ UNCHANGED cdSent
     \/ \E first \in Replies :
          LET one == Append(cdSent, [req |-> "players", reply |-> first])
              Parsed == \E m \in 0..MaxPlayers : CodecReturn(WithList(cdResult, m))
          IN IF first = "challenge"
               THEN \/ /\ cdSent' = one
                       /\ CodecReturn(WithList(cdResult, 0))
                    \/ \E second \in Replies \ {"shortchallenge"} :
                         /\ cdSent' = Append(one, [req |-> "players", reply |-> second])
                         /\ IF second = "answer" THEN Parsed
                            ELSE CodecReturn(WithList(cdResult, 0))
               ELSE /\ cdSent' = one
                    /\ IF first = "answer" THEN Parsed
                       ELSE CodecReturn(WithList(cdResult, 0))
  /\ UNCHANGED <<offCodec, cdProto, cdPlayers>>

\* MinecraftProtocol.Query from readVarIntPrefixedData on. sample: the
\* length of status.Players.Sample, -1 when the field is absent (nil)
MinecraftRead ==
  /\ cdpc = "read"
  /\ cdProto = "minecraft"
  /\ \E d \in 0..MaxDelay :
       /\ TickFirst(d)
       /\ \/ \E e \in {"read response failed", "response too short",
                       "read JSON length failed", "read JSON data failed",
                       "failed to parse JSON"} : CodecReturn(Fail(e))
          \/ \E n \in 0..MaxPlayers : \E sample \in -1..n :
               CodecReturn(IF cdPlayers
                             THEN WithList(OnlineInfo(n, d), IF sample # -1 THEN sample ELSE 0)
                             ELSE OnlineInfo(n, d))
  /\ UNCHANGED <<offCodec, cdProto, cdPlayers, cdSent>>

\* TerrariaProtocol.Query from conn.Read on, with parseResponse: a player
\* info packet or any other packet type gives an empty list; a chat packet
\* gives the names found in its text, k of them, and the count c its text
\* states when it names nobody
TerrariaRead ==
  /\ cdpc = "read"
  /\ cdProto = "terraria"
  /\ \E d \in 0..MaxDelay :
       /\ TickFirst(d)
       /\ \/ \E e \in {"read failed", "parse failed"} : CodecReturn(Fail(e))
          \/ CodecReturn(WithList(OnlineInfo(0, d), 0))
          \/ \E c, k \in 0..MaxPlayers :
               CodecReturn(WithList(OnlineInfo(IF k > 0 THEN k ELSE c, d), k))
  /\ UNCHANGED <<offCodec, cdProto, cdPlayers, cdSent>>

\* queryWithServerInfo after proto.Query: an error is passed on, an online
\* info goes through setServerInfoFields, `info.Ping = time.Since(start)`
EngineReturn ==
  /\ cdpc = "done"
  /\ cdpc' = "returned"
  /\ cdResult' = IF cdResult.Online THEN [cdResult EXCEPT !.Ping = cdClock.total]
                 ELSE cdResult
  /\ UNCHANGED <<offCodec, cdProto, cdPlayers, cdClock, cdSent>>

InitCodec ==
  /\ cdProto \in Protocols
  /\ cdPlayers \in BOOLEAN
  /\ cdpc = "connect"
  /\ cdResult = OfflineInfo
  /\ cdClock = [total |-> 0, first |-> 0]
  /\ cdSent = <<>>
  /\ server = <<>>
  /\ cancelled = FALSE
  /\ optPortRange = <<>>
  /\ specifiedPort = 0
  /\ maxConcurrency = 0
  /\ withProgress = FALSE
  /\ mainpc = "codec"
  /\ ExpandIdle
  /\ ScanIdle
  /\ LegacyIdle
  /\ SingleIdle
  /\ WireIdle
  /\ FnIdle

NextCodec ==
  \/ CodecConnect \/ CodecTShock \/ CodecWrite
  \/ A2SRead \/ A2SChallenge \/ A2SPlayers
  \/ MinecraftRead \/ TerrariaRead
  \/ EngineReturn

SpecCodec == InitCodec /\ [][NextCodec]_vars

\* ------------------------------------------------------------------------
\* C9: Players.List and Options.Players
\* ------------------------------------------------------------------------
\* C9: whatever codec was called and however the call ended (online,
\* Online=false, error), the returned Players.List is nil exactly when
\* Options.Players is false.
C9_ListNilIffNotRequested ==
  cdpc = "done" => (cdResult.ListNil <=> ~cdPlayers)

\* a Terraria server answered a call that did not ask for players
C9_Witness ==
  /\ cdpc = "done"
  /\ cdProto = "terraria"
  /\ ~cdPlayers
  /\ cdResult.Online

\* ------------------------------------------------------------------------
\* The A2S codec at the level of bytes: A2SProtocol.Query without players
\* ------------------------------------------------------------------------
\* Go indexes from 0: data[off]
At(data, off) == data[off + 1]

\* data[:n] when n <= len(data)
Cut(data, n) == SubSeq(data, 1, n)

\* binary.LittleEndian.Uint32 / PutUint32; the value as its two 16-bit halves
Uint32(b) == [lo |-> b[1] + 256 * b[2], hi |-> b[3] + 256 * b[4]]
PutUint32Mutant(v) == <<v.hi \div 256, v.hi % 256, v.lo \div 256, v.lo % 256>>
PutUint32(v) == <<v.lo % 256, v.lo \div 256, v.hi % 256, v.hi \div 256>>

\* 0xFF 0xFF 0xFF 0xFF 0x54 "Source Engine Query\x00"
A2SRequest ==
  <<255, 255, 255, 255, 84>>
  \o <<83, 111, 117, 114, 99, 101, 32, 69, 110, 103, 105, 110, 101, 32,
       81, 117, 101, 114, 121, 0>>

Header(type) == <<255, 255, 255, 255, type>>

\* the A2SInfo of the test server
BaseInfo ==
  [Protocol |-> 17, Name |-> <<78>>, Map |-> <<77>>, Folder |-> <<70>>, Game |-> <<71>>,
   AppID |-> 4000, Players |-> 1, MaxPlayers |-> 2, Bots |-> 0, ServerType |-> 100,
   Environment |-> 108, Visibility |-> 0, VAC |-> 1, Version |-> <<86>>]

StringFields == {"Name", "Map", "Folder", "Game", "Version"}
ByteFields == {"Protocol", "Players", "MaxPlayers", "Bots", "ServerType", "Environment",
               "Visibility", "VAC"}

\* the A2SInfo values of the runs: the base value with one field changed;
\* no string holds a NUL byte
InfoValues ==
  {BaseInfo}
  \cup {[BaseInfo EXCEPT ![f] = v] : f \in StringFields, v \in {<<>>, <<65, 66>>}}
  \cup {[BaseInfo EXCEPT ![f] = v] : f \in ByteFields, v \in {0, 3, 255}}
  \cup {[BaseInfo EXCEPT !.AppID = v] : v \in {0, 255, 256, 730, 65535}}

\* the A2S_INFO payload as the server writes it
SerializeInfo(i) ==
  <<i.Protocol>> \o i.Name \o <<0>> \o i.Map \o <<0>> \o i.Folder \o <<0>>
  \o i.Game \o <<0>> \o <<i.AppID % 256, i.AppID \div 256>>
  \o <<i.Players, i.MaxPlayers, i.Bots, i.ServerType, i.Environment, i.Visibility, i.VAC>>
  \o i.Version \o <<0>>

\* the parser's position: the buffer, offset, the error if any, the fields
\* read so far, and whether a read went past the end of the buffer
ParseStart(data) ==
  [data |-> data, off |-> 0, err |-> None, info |-> <<>>, oob |-> FALSE]

\* `for offset < len(data) && data[offset] != 0 { offset++ }`
RECURSIVE ScanNul(_, _)
ScanNul(data, off) ==
  IF off < Len(data) /\ At(data, off) # 0 THEN ScanNul(data, off + 1) ELSE off

\* readNullTerminatedString, and the caller's `if err != nil`
ReadStringMutant(st, f, e) ==
  IF st.err # None THEN st
  ELSE LET end == ScanNul(st.data, st.off)
       IN IF end >= Len(st.data)
            THEN [st EXCEPT !.err = e, !.off = end]
            ELSE [st EXCEPT !.info = (f :> SubSeq(st.data, st.off + 1, end)) @@ @,
                            !.off = end]
ReadString(st, f, e) ==
  IF st.err # None THEN st
  ELSE LET end == ScanNul(st.data, st.off)
       IN IF end >= Len(st.data)
            THEN [st EXCEPT !.err = e, !.off = end]
            ELSE [st EXCEPT !.info = (f :> SubSeq(st.data, st.off + 1, end)) @@ @,
                            !.off = end + 1]

\* `if offset >= len(data) { return nil, ... }; info.F = data[offset]; offset++`
ReadByte(st, f, e) ==
  IF st.err # None THEN st
  ELSE IF st.off >= Len(st.data) THEN [st EXCEPT !.err = e]
  ELSE [st EXCEPT !.info = (f :> At(st.data, st.off)) @@ @, !.off = @ + 1]

\* `if offset+1 >= len(data)`; binary.LittleEndian.Uint16(data[offset:offset+2])
ReadUint16Mutant(st, f, e) ==
  IF st.err # None THEN st
  ELSE IF st.off >= Len(st.data) THEN [st EXCEPT !.err = e]
  ELSE IF st.off + 1 >= Len(st.data) THEN [st EXCEPT !.oob = TRUE, !.off = @ + 2,
                                                     !.info = (f :> 0) @@ @]
  ELSE [st EXCEPT !.info = (f :> At(st.data, st.off) + 256 * At(st.data, st.off + 1)) @@ @,
                  !.off = @ + 2]
ReadUint16(st, f, e) ==
  IF st.err # None THEN st
  ELSE IF st.off + 1 >= Len(st.data) THEN [st EXCEPT !.err = e]
  ELSE [st EXCEPT !.info = (f :> At(st.data, st.off) + 256 * At(st.data, st.off + 1)) @@ @,
                  !.off = @ + 2]

parseA2SInfoResponse(data) ==
  IF Len(data) < 1 THEN [ParseStart(data) EXCEPT !.err = "data too short"]
  ELSE LET s1 == ReadByte(ParseStart(data), "Protocol", "missing protocol version")
           s2 == ReadString(s1, "Name", "read name failed")
           s3 == ReadString(s2, "Map", "read map failed")
           s4 == ReadString(s3, "Folder", "read folder failed")
           s5 == ReadString(s4, "Game", "read game failed")
           s6 == ReadUint16(s5, "AppID", "missing app ID")
           s7 == ReadByte(s6, "Players", "missing players")
           s8 == ReadByte(s7, "MaxPlayers", "missing max players")
           s9 == ReadByte(s8, "Bots", "missing bots")
           s10 == ReadByte(s9, "ServerType", "missing server type")
           s11 == ReadByte(s10, "Environment", "missing environment")
           s12 == ReadByte(s11, "Visibility", "missing visibility")
           s13 == ReadByte(s12, "VAC", "missing VAC")
       IN ReadString(s13, "Version", "read version failed")

\* fmt.Sscanf(s, "%d", &appID): the number the leading digits spell; -1: the
\* string does not start with a digit and the scan failed
ScanInt(str) ==
  IF str = <<>> \/ Head(str) < 48 \/ Head(str) > 57 THEN -1 ELSE DigitsValue(str, 0)

\* A2SProtocol.detectByAppID: the static table; "" when the id is not in it
detectByAppIDMutant(appIDStr) == ""
detectByAppID(appIDStr) ==
  LET appID == ScanInt(appIDStr)
  IN CASE appID = 730 -> "counter-strike"
       [] appID = 240 -> "counter-strike"
       [] appID = 4000 -> "garrys-mod"
       [] appID = 440 -> "team-fortress-2"
       [] appID = 550 -> "left-4-dead-2"
       [] appID = 500 -> "left-4-dead"
       [] appID = 320 -> "half-life"
       [] appID = 300 -> "day-of-defeat"
       [] appID = 252490 -> "rust"
       [] appID = 346110 -> "ark-survival-evolved"
       [] appID = 222880 -> "insurgency"
       [] appID = 108600 -> "project-zomboid"
       [] appID = 526870 -> "satisfactory"
       [] appID = 251570 -> "7-days-to-die"
       [] appID = 892970 -> "valheim"
       [] appID = 107410 -> "arma-3"
       [] appID = 221100 -> "dayz"
       [] appID = 489940 -> "battalion-1944"
       [] OTHER -> ""

\* A2SProtocol.DetectGame. info: [Online, hasExtra, hasAppID, app_id, game]
DetectGame(info) ==
  IF ~info.Online THEN "a2s"
  ELSE IF info.hasExtra /\ info.hasAppID /\ detectByAppID(info.app_id) # ""
         THEN detectByAppID(info.app_id)
  ELSE "a2s"

\* what Query returns: the error if any, the A2SInfo that was parsed, and the
\* fields of the ServerInfo
NoRet ==
  [Online |-> FALSE, err |-> None, parsed |-> <<>>, info |-> <<>>, Game |-> "", oob |-> FALSE]

WireFail(e) == [NoRet EXCEPT !.err = e]

\* the `result := &ServerInfo{...}` literal of Query and queryWithChallenge,
\* then `result.Game = s.DetectGame(result)`
A2SServerInfo(i) ==
  [Name |-> i.Name, Map |-> i.Map, Version |-> i.Version,
   Current |-> i.Players, Max |-> i.MaxPlayers,
   ExtraGame |-> i.Game, ExtraAppID |-> FormatInt(i.AppID)]

A2SResult(st, e) ==
  IF st.err # None THEN [WireFail(e) EXCEPT !.oob = st.oob]
  ELSE [Online |-> TRUE, err |-> None, parsed |-> st.info, info |-> A2SServerInfo(st.info),
        Game |-> DetectGame([Online |-> TRUE, hasExtra |-> TRUE, hasAppID |-> TRUE,
                             app_id |-> FormatInt(st.info.AppID), game |-> st.info.Game]),
        oob |-> st.oob]

\* --- the server
\* Steam AppIDs of servers: Garry's Mod, Rust, Valheim
SteamAppIDs == {4000, 252490, 892970}

\* the A2SInfo of a server with this Steam AppID: the AppID field is a uint16
SteamInfo(appID) == [BaseInfo EXCEPT !.AppID = appID % 65536]

\* the challenge values of the runs
Tokens == {<<0, 0, 0, 0>>, <<1, 2, 3, 4>>, <<255, 255, 255, 255>>, <<73, 0, 65, 128>>}

\* response types that are neither a challenge nor A2S_INFO
OtherTypes == {0, 68, 109}

InfoDatagram == Header(73) \o SerializeInfo(wValue)
ChallengeDatagram == Header(65) \o token

\* the datagram answering the codec's first request, if any
FirstReply ==
  CASE script.kind \in {"direct", "steam"} -> <<Cut(InfoDatagram, keep)>>
    [] script.kind \in {"challenge", "rechallenge"} -> <<ChallengeDatagram>>
    [] script.kind = "shortchallenge" -> <<Cut(ChallengeDatagram, keep)>>
    [] script.kind = "other" -> <<Header(script.type) \o SerializeInfo(wValue)>>
    [] OTHER -> <<>>

\* the datagram answering the second request: the info when the request
\* repeats the challenge, another challenge, or nothing
SecondReply(req) ==
  CASE script.kind = "challenge" /\ req = A2SRequest \o token -> <<Cut(InfoDatagram, keep)>>
    [] script.kind = "rechallenge" -> <<ChallengeDatagram>>
    [] OTHER -> <<>>

WireReturn(r) ==
  /\ wireRet' = r
  /\ wirepc' = "done"

offWire == <<envVars, mainpc, expVars, scanVars, progVars, legacyVars, singleVars,
             codecVars, fnVars>>

\* --- the codec
\* `conn.Write(request)`
A2SWriteRequest ==
  /\ wProto = "a2s"
  /\ wirepc = "start"
  /\ \/ /\ sent' = <<A2SRequest>>
        /\ wirepc' = "read"
        /\ UNCHANGED wireRet
     \/ /\ WireReturn(WireFail("write failed"))
        /\ UNCHANGED sent
  /\ UNCHANGED <<offWire, wProto, wValue, script, token, keep, response>>

\* `n, err := conn.Read(response)` and the dispatch on response[4]; on a
\* challenge queryWithChallenge writes the request again with the challenge
A2SReadResponse ==
  /\ wProto = "a2s"
  /\ wirepc = "read"
  /\ IF FirstReply = <<>>
       THEN /\ WireReturn(WireFail("read failed"))
            /\ UNCHANGED <<sent, response>>
       ELSE LET r == FirstReply[1]
                n == Len(r)
            IN /\ response' = r
               /\ IF n < 5
                    THEN WireReturn(WireFail("response too short")) /\ UNCHANGED sent
                    ELSE IF At(r, 4) = 65
                      THEN IF n < 9
                             THEN /\ WireReturn(WireFail("challenge response too short"))
                                  /\ UNCHANGED sent
                             ELSE LET challenge == Uint32(SubSeq(r, 6, 9))
                                  IN \/ /\ sent' = Append(sent, A2SRequest \o PutUint32(challenge))
                                        /\ wirepc' = "read2"
                                        /\ UNCHANGED wireRet
                                     \/ /\ WireReturn(WireFail("write challenge failed"))
                                        /\ UNCHANGED sent
                    ELSE IF At(r, 4) # 73
                      THEN WireReturn(WireFail("unexpected response type")) /\ UNCHANGED sent
                    ELSE /\ WireReturn(A2SResult(parseA2SInfoResponse(SubSeq(r, 6, n)),
                                                 "parse failed"))
                         /\ UNCHANGED sent
  /\ UNCHANGED <<offWire, wProto, wValue, script, token, keep>>

\* queryWithChallenge from its conn.Read on
A2SReadChallenged ==
  /\ wProto = "a2s"
  /\ wirepc = "read2"
  /\ LET reply == SecondReply(sent[2])
     IN IF reply = <<>>
          THEN /\ WireReturn(WireFail("read challenge response failed"))
               /\ UNCHANGED response
          ELSE LET r == reply[1]
                   n == Len(r)
               IN /\ response' = r
                  /\ IF n < 5 \/ At(r, 4) # 73
                       THEN WireReturn(WireFail("invalid challenge response"))
                       ELSE WireReturn(A2SResult(parseA2SInfoResponse(SubSeq(r, 6, n)),
                                                 "parse challenge response failed"))
  /\ UNCHANGED <<offWire, wProto, wValue, script, token, keep, sent>>

\* ------------------------------------------------------------------------
\* The Minecraft codec at the level of bytes: the status response
\* ------------------------------------------------------------------------
\* writeVarInt
RECURSIVE writeVarInt(_)
writeVarInt(value) ==
  IF value < 128 THEN <<value>> ELSE <<(value % 128) + 128>> \o writeVarInt(value \div 128)

\* 2^k for the shifts of readVarInt
RECURSIVE Pow2(_)
Pow2(k) == IF k = 0 THEN 1 ELSE 2 * Pow2(k - 1)

\* readVarInt on a reader at offset off of data: io.ReadFull of one byte
\* fails at the end of the bytes; five bytes with the high bit set are
\* "VarInt too long"
RECURSIVE readVarIntFrom(_, _, _, _)
readVarIntFrom(data, off, shift, result) ==
  IF off >= Len(data) THEN [err |-> "EOF", value |-> 0, off |-> off]
  ELSE LET b == At(data, off)
           r == result + (b % 128) * Pow2(shift)
       IN IF b < 128 THEN [err |-> None, value |-> r, off |-> off + 1]
          ELSE IF shift + 7 >= 32 THEN [err |-> "VarInt too long", value |-> 0, off |-> off + 1]
          ELSE readVarIntFrom(data, off + 1, shift + 7, r)

readVarInt(data, off) == readVarIntFrom(data, off, 0, 0)

\* readVarIntPrefixedData: the length, then io.ReadFull of that many bytes
readVarIntPrefixedData(data) ==
  LET l == readVarInt(data, 0)
  IN IF l.err # None THEN [err |-> l.err, data |-> <<>>]
     ELSE IF l.off + l.value > Len(data) THEN [err |-> "unexpected EOF", data |-> <<>>]
     ELSE [err |-> None, data |-> SubSeq(data, l.off + 1, l.off + l.value)]

\* a status document of n bytes: "{", blanks, "}"
StatusDoc(n) == [i \in 1..n |-> IF i = 1 THEN 123 ELSE IF i = n THEN 125 ELSE 32]

\* the documents of the runs; their lengths put the packet length on both
\* sides of the one-byte VarInt limit
StatusDocs == {StatusDoc(n) : n \in {2, 124, 125, 130}}

\* json.Unmarshal accepts the documents and nothing cut from them
ValidJSON(jsonData) == jsonData \in StatusDocs

\* the status response packet: length, packet id 0, the JSON string
StatusResponse(doc) ==
  LET packet == <<0>> \o writeVarInt(Len(doc)) \o doc
  IN writeVarInt(Len(packet)) \o packet

\* responses that are complete but wrong: an empty packet, no JSON length,
\* a JSON length beyond the packet, a document that is not JSON
MalformedResponses == {<<0>>, <<1, 0>>, <<3, 0, 5, 123>>, <<3, 0, 1, 32>>}

\* MinecraftProtocol.Query from readVarIntPrefixedData(conn) to the parsed
\* status, on the bytes that arrived
MinecraftParse(stream) ==
  LET outer == readVarIntPrefixedData(stream)
  IN IF outer.err # None THEN WireFail("read response failed")
     ELSE IF Len(outer.data) < 1 THEN WireFail("response too short")
     ELSE LET rest == Tail(outer.data)
              jl == readVarInt(rest, 0)
          IN IF jl.err # None THEN WireFail("read JSON length failed")
             ELSE IF jl.off + jl.value > Len(rest)
               THEN [WireFail("read JSON data failed") EXCEPT !.oob = FALSE]
             ELSE LET jsonData == SubSeq(rest, jl.off + 1, jl.off + jl.value)
                  IN IF ~ValidJSON(jsonData) THEN WireFail("failed to parse JSON")
                     ELSE [Online |-> TRUE, err |-> None, parsed |-> <<>>,
                           info |-> [doc |-> jsonData],
                           Game |-> "minecraft", oob |-> FALSE]

MinecraftStream ==
  IF script.kind = "direct" THEN Cut(StatusResponse(wValue), keep) ELSE wValue

\* handshake and status request
MinecraftWriteRequest ==
  /\ wProto = "minecraft"
  /\ wirepc = "start"
  /\ \/ /\ sent' = <<"handshake", "status request">>
        /\ wirepc' = "read"
        /\ UNCHANGED wireRet
     \/ \E e \in {"handshake failed", "status request failed"} :
          /\ WireReturn(WireFail(e))
          /\ UNCHANGED sent
  /\ UNCHANGED <<offWire, wProto, wValue, script, token, keep, response>>

MinecraftReadResponse ==
  /\ wProto = "minecraft"
  /\ wirepc = "read"
  /\ response' = MinecraftStream
  /\ WireReturn(MinecraftParse(MinecraftStream))
  /\ UNCHANGED <<offWire, wProto, wValue, script, token, keep, sent>>

\* ------------------------------------------------------------------------
\* The runs of the byte-level codecs
\* ------------------------------------------------------------------------
Script(k, t) == [kind |-> k, type |-> t]

InitWire ==
  /\ \/ /\ wProto = "a2s"
        /\ wValue \in InfoValues
        /\ \/ /\ script = Script("direct", 73)
              /\ token = <<0, 0, 0, 0>>
              /\ keep \in 0..Len(Header(73) \o SerializeInfo(wValue))
           \/ /\ script = Script("challenge", 65)
              /\ token \in Tokens
              /\ keep \in 0..Len(Header(73) \o SerializeInfo(wValue))
     \/ /\ wProto = "a2s"
        /\ wValue = BaseInfo
        /\ \/ /\ script = Script("shortchallenge", 65)
              /\ token \in Tokens
              /\ keep \in 5..8
           \/ /\ script = Script("rechallenge", 65)
              /\ token \in Tokens
              /\ keep = 9
           \/ /\ script \in {Script("other", t) : t \in OtherTypes} \cup {Script("silent", 0)}
              /\ token = <<0, 0, 0, 0>>
              /\ keep = 0
     \/ /\ wProto = "a2s"
        /\ \E a \in SteamAppIDs :
             /\ script = [kind |-> "steam", type |-> 73, appID |-> a]
             /\ wValue = SteamInfo(a)
        /\ token = <<0, 0, 0, 0>>
        /\ keep = Len(Header(73) \o SerializeInfo(wValue))
     \/ /\ wProto = "minecraft"
        /\ wValue \in StatusDocs
        /\ script = Script("direct", 0)
        /\ token = <<>>
        /\ keep \in 0..Len(StatusResponse(wValue))
     \/ /\ wProto = "minecraft"
        /\ wValue \in MalformedResponses
        /\ script = Script("malformed", 0)
        /\ token = <<>>
        /\ keep = Len(wValue)
  /\ sent = <<>>
  /\ response = <<>>
  /\ wirepc = "start"
  /\ wireRet = NoRet
  /\ server = <<>>
  /\ cancelled = FALSE
  /\ optPortRange = <<>>
  /\ specifiedPort = 0
  /\ maxConcurrency = 0
  /\ withProgress = FALSE
  /\ mainpc = "codec"
  /\ ExpandIdle
  /\ ScanIdle
  /\ LegacyIdle
  /\ SingleIdle
  /\ CodecIdle
  /\ FnIdle

NextWire ==
  \/ A2SWriteRequest \/ A2SReadResponse \/ A2SReadChallenged
  \/ MinecraftWriteRequest \/ MinecraftReadResponse

SpecWire == InitWire /\ [][NextWire]_vars

\* ------------------------------------------------------------------------
\* C11: the dispatch on the fifth byte of the A2S response
\* ------------------------------------------------------------------------
\* C11: once the first response (at least five bytes) has been read, its
\* fifth byte has decided the exchange. 0x41 with the four challenge bytes:
\* unless the write failed, a second datagram was sent that is the original
\* request followed by response bytes 5 to 8 as they came, and the codec
\* reads a second time. 0x49: nothing more was sent and the payload was
\* parsed. Any other value: nothing more was sent and the call returned the
\* protocol error with Online=false.
C11_FifthByteDispatch ==
  (wProto = "a2s" /\ wirepc \in {"read2", "done"} /\ sent # <<>> /\ FirstReply # <<>>
   /\ Len(FirstReply[1]) >= 5)
    => LET r == FirstReply[1]
       IN /\ sent[1] = A2SRequest
          /\ (r[5] = 65 /\ Len(r) >= 9)
               => \/ wirepc = "done" /\ wireRet.err = "write challenge failed" /\ Len(sent) = 1
                  \/ /\ Len(sent) = 2
                     /\ sent[2] = sent[1] \o SubSeq(r, 6, 9)
                     /\ \/ wirepc = "read2"
                        \/ /\ wirepc = "done"
                           /\ wireRet.err \in {None, "read challenge response failed",
                                               "invalid challenge response",
                                               "parse challenge response failed"}
                           /\ SecondReply(sent[2]) # <<>> => response = SecondReply(sent[2])[1]
          /\ r[5] = 73
               => /\ wirepc = "done"
                  /\ Len(sent) = 1
                  /\ wireRet.err \in {None, "parse failed"}
                  /\ wireRet.Online => wireRet.info = A2SServerInfo(wValue)
          /\ r[5] \notin {65, 73}
               => /\ wirepc = "done"
                  /\ Len(sent) = 1
                  /\ ~wireRet.Online
                  /\ wireRet.err = "unexpected response type"

\* a challenge with four different bytes was answered and the info came
C11_Witness ==
  /\ wProto = "a2s"
  /\ wirepc = "done"
  /\ script.kind = "challenge"
  /\ token = <<73, 0, 65, 128>>
  /\ Len(sent) = 2
  /\ wireRet.Online

\* ------------------------------------------------------------------------
\* C12: truncated A2S info and Minecraft status responses
\* ------------------------------------------------------------------------
\* the whole answer of the server, of which `keep` bytes arrive
FullAnswer == IF wProto = "a2s" THEN InfoDatagram ELSE StatusResponse(wValue)

\* C12: when the server's valid A2S info answer or Minecraft status
\* response arrives cut short at any offset, the call returns an error with
\* Online=false; and no call, cut or not, reads a byte beyond what arrived.
C12_TruncationIsAnError ==
  wirepc = "done"
    => /\ ~wireRet.oob
       /\ (script.kind \in {"direct", "challenge"} /\ keep < Len(FullAnswer))
            => /\ wireRet.err # None
               /\ ~wireRet.Online

\* the A2S info arrived without its last byte and parsing failed
C12_Witness ==
  /\ wirepc = "done"
  /\ wProto = "a2s"
  /\ script.kind = "direct"
  /\ keep = Len(InfoDatagram) - 1
  /\ response = Cut(InfoDatagram, keep)
  /\ wireRet.err = "parse failed"

\* ------------------------------------------------------------------------
\* C19: the A2S info round trip
\* ------------------------------------------------------------------------
\* C19: when the whole info payload of a value without NUL bytes in its
\* strings arrives, directly or after a challenge, and no write fails, the
\* query succeeds, the parsed A2SInfo equals the value in every field, and
\* the ServerInfo is the one built from the value on either path.
C19_InfoRoundTrip ==
  (wProto = "a2s" /\ wirepc = "done" /\ script.kind \in {"direct", "challenge"}
   /\ keep = Len(InfoDatagram)
   /\ wireRet.err \notin {"write failed", "write challenge failed"})
    => /\ wireRet.Online /\ wireRet.err = None
       /\ wireRet.parsed = wValue
       /\ wireRet.info = A2SServerInfo(wValue)
       /\ wireRet.Game = DetectGame([Online |-> TRUE, hasExtra |-> TRUE, hasAppID |-> TRUE,
                                     app_id |-> FormatInt(wValue.AppID), game |-> wValue.Game])

\* a value with a two-character name came back whole
\* after a challenge round trip
C19_Witness ==
  /\ wProto = "a2s"
  /\ wirepc = "done"
  /\ script.kind = "challenge"
  /\ Len(sent) = 2
  /\ keep = Len(InfoDatagram)
  /\ wValue.Name = <<65, 66>>
  /\ wireRet.Online
  /\ wireRet.parsed = wValue
  /\ wireRet.info.Name = <<65, 66>>

\* ------------------------------------------------------------------------
\* Pure functions of the codecs, each applied once to an input of the run
\* ------------------------------------------------------------------------
\* players in a player list of the runs at most
MaxList == 2
\* characters in a description of the runs at most
MaxMotdLen == 4

offFn == <<envVars, mainpc, expVars, scanVars, progVars, legacyVars, singleVars,
           codecVars, wireVars>>

\* --- A2SProtocol.parsePlayersResponse
\* the float32 bit patterns of the runs and the seconds math.Round gives:
\* 0.0 and 1.5
Float32Seconds(bits) ==
  CASE bits = [lo |-> 0, hi |-> 0] -> 0
    [] bits = [lo |-> 0, hi |-> 16320] -> 2

\* the players a server may hold: name, score and duration as it writes them
PlayerValues ==
  {[name |-> n, score |-> <<5, 0, 0, 0>>, duration |-> d] :
     n \in {<<>>, <<65>>}, d \in {<<0, 0, 0, 0>>, <<0, 0, 192, 63>>}}

\* the sequences over S of length n at most
RECURSIVE SeqsUpTo(_, _)
SeqsUpTo(S, n) ==
  IF n = 0 THEN {<<>>}
  ELSE LET shorter == SeqsUpTo(S, n - 1)
       IN shorter \cup {Append(q, x) : q \in shorter, x \in S}

\* the A2S_PLAYER payload: the count, then index, name, score and duration
\* of each player
RECURSIVE SerializePlayersFrom(_, _)
SerializePlayersFrom(list, i) ==
  IF i > Len(list) THEN <<>>
  ELSE <<i - 1>> \o list[i].name \o <<0>> \o list[i].score \o list[i].duration
       \o SerializePlayersFrom(list, i + 1)

SerializePlayers(list) == <<Len(list)>> \o SerializePlayersFrom(list, 1)

\* the loop `for i := 0; i < int(playerCount); i++` from record i on; every
\* field that does not fit ends the loop with `break`. top: one more than
\* the highest offset read so far
RECURSIVE PlayersLoop(_, _, _, _, _, _)
PlayersLoop(data, offset, i, playerCount, players, top) ==
  LET stop(t) == [players |-> players, top |-> t]
  IN IF i >= playerCount THEN stop(top)
     ELSE IF offset >= Len(data) THEN stop(top)
     ELSE LET nameEnd == ScanNul(data, offset + 1)
          IN IF nameEnd >= Len(data) THEN stop(nameEnd)
             ELSE LET o1 == nameEnd + 1
                  IN IF o1 + 3 >= Len(data) THEN stop(o1)
                     ELSE LET o2 == o1 + 4
                          IN IF o2 + 3 >= Len(data) THEN stop(o2)
                             ELSE PlayersLoop(data, o2 + 4, i + 1, playerCount,
                                    Append(players,
                                      [Name |-> SubSeq(data, offset + 2, nameEnd),
                                       Score |-> Uint32(SubSeq(data, o1 + 1, o1 + 4)),
                                       Duration |-> Float32Seconds(
                                                      Uint32(SubSeq(data, o2 + 1, o2 + 4)))]),
                                    o2 + 4)

parsePlayersResponse(data) ==
  IF Len(data) < 1 THEN [err |-> "data too short", players |-> <<>>, top |-> 0]
  ELSE LET r == PlayersLoop(data, 1, 0, data[1], <<>>, 1)
       IN [err |-> None, players |-> r.players, top |-> r.top]

ParsePlayers ==
  /\ fnName = "parsePlayersResponse"
  /\ fnpc = "call"
  /\ fnRes' = parsePlayersResponse(Cut(SerializePlayers(fnArg.list), fnArg.keep))
  /\ fnpc' = "done"
  /\ UNCHANGED <<offFn, fnName, fnArg>>

\* --- MinecraftProtocol.cleanMotd
\* the characters of the descriptions: the escape marker, a code character,
\* another character, a blank
MotdChars == {167, 97, 120, 32}

\* the class [0-9a-fk-or] of the pattern
IsCode(c) == c \in (48..57) \cup (97..102) \cup (107..111) \cup {114}

\* colorCodeRe.ReplaceAllString(text, ""): the matches of the marker followed
\* by a code character, leftmost first and not overlapping, are removed
RECURSIVE ReplaceAllCodes(_)
ReplaceAllCodes(text) ==
  IF text = <<>> THEN <<>>
  ELSE IF Len(text) >= 2 /\ text[1] = 167 /\ IsCode(text[2])
    THEN ReplaceAllCodes(SubSeq(text, 3, Len(text)))
  ELSE <<text[1]>> \o ReplaceAllCodes(Tail(text))

\* strings.TrimSpace
RECURSIVE TrimSpace(_)
TrimSpace(text) ==
  IF text = <<>> THEN <<>>
  ELSE IF text[1] = 32 THEN TrimSpace(Tail(text))
  ELSE IF text[Len(text)] = 32 THEN TrimSpace(SubSeq(text, 1, Len(text) - 1))
  ELSE text

\* the text of a rich description: v["text"], then the text of every extra
RECURSIVE Concat(_)
Concat(parts) == IF parts = <<>> THEN <<>> ELSE Head(parts) \o Concat(Tail(parts))

\* motd: a JSON string, or an object with "text" and "extra"
cleanMotd(motd) ==
  LET text == IF motd.kind = "string" THEN motd.text ELSE motd.text \o Concat(motd.extra)
  IN TrimSpace(ReplaceAllCodes(text))

StringMotd(text) == [kind |-> "string", text |-> text, extra |-> <<>>]

\* the descriptions of the runs: every string up to MaxMotdLen characters,
\* and objects with a text and one or two extra fragments
Motds ==
  {StringMotd(t) : t \in SeqsUpTo(MotdChars, MaxMotdLen)}
  \cup {[kind |-> "map", text |-> t, extra |-> e] :
          t \in {<<>>, <<167>>}, e \in {<<<<97>>>>, <<<<120>>, <<167, 97>>>>}}

CleanMotd ==
  /\ fnName = "cleanMotd"
  /\ fnpc = "call"
  /\ fnRes' = cleanMotd(fnArg)
  /\ fnpc' = "done"
  /\ UNCHANGED <<offFn, fnName, fnArg>>

\* --- A2SProtocol.DetectGame
\* the AppIDs of the table
TableAppIDs == {730, 240, 4000, 440, 550, 500, 320, 300, 252490, 346110, 222880, 108600,
                526870, 251570, 892970, 107410, 221100, 489940}

\* the reports of the runs: Extra["app_id"] in and out of the table, empty,
\* not a number, or missing; Extra["game"] any of some descriptions
Reports ==
  {[Online |-> o, hasExtra |-> x, hasAppID |-> a, app_id |-> id, game |-> g] :
     o \in BOOLEAN, x \in BOOLEAN, a \in BOOLEAN,
     id \in {FormatInt(n) : n \in TableAppIDs \cup {0, 731}} \cup {<<>>, <<120>>},
     g \in {"", "Counter-Strike", "Counter-Strike 2", "Rust", "Garry's Mod",
            "Some Unknown Game"}}

ClassifyGame ==
  /\ fnName = "DetectGame"
  /\ fnpc = "call"
  /\ fnRes' = DetectGame(fnArg)
  /\ fnpc' = "done"
  /\ UNCHANGED <<offFn, fnName, fnArg>>

\* --- the registry: Register in the init functions, Get, query.DefaultPort
\* the names of Protocol.Games()
GamesOf(p) ==
  CASE p = "a2s" ->
         {"counter-strike-2", "counter-strike", "counter-source", "garrys-mod",
          "team-fortress-2", "left-4-dead", "left-4-dead-2", "half-life", "insurgency",
          "day-of-defeat", "project-zomboid", "satisfactory", "7-days-to-die", "arma-3",
          "dayz", "battalion-1944", "rust", "valheim", "ark-survival-evolved"}
    [] p = "minecraft" -> {"minecraft"}
    [] p = "terraria" -> {"terraria"}

EmptyRegistry == [protocols |-> {}, aliases |-> <<>>]

\* Registry.Register: the protocol under its name, and each of its game
\* names that is not the protocol's name as an alias of it
Register(reg, p) ==
  LET names == GamesOf(p) \ {"", p}
  IN [protocols |-> reg.protocols \cup {p},
      aliases |-> [n \in names |-> p] @@ reg.aliases]

\* the init functions of the codecs, run in the given order
RECURSIVE RegisterAll(_, _)
RegisterAll(reg, order) ==
  IF order = <<>> THEN reg ELSE RegisterAll(Register(reg, Head(order)), Tail(order))

\* Registry.RegisterAlias: `r.aliases[alias] = protocolName`, whatever is
\* registered under protocolName
RegisterAlias(reg, alias, protocolName) ==
  [reg EXCEPT !.aliases = [n \in {alias} |-> protocolName] @@ reg.aliases]

\* Registry.Get, both values: a protocol name is found as itself; an alias is
\* found as `r.protocols[protocolName]`, the zero value (None: the nil
\* Protocol) when nothing is registered under protocolName
GetProtocol(reg, name) ==
  IF name \in reg.protocols THEN [protocol |-> name, found |-> TRUE]
  ELSE IF name \in DOMAIN reg.aliases
    THEN [protocol |-> IF reg.aliases[name] \in reg.protocols
                         THEN reg.aliases[name] ELSE None,
          found |-> TRUE]
  ELSE [protocol |-> None, found |-> FALSE]

\* Registry.Get: a protocol name, else an alias; None: not found
RegistryGetMutant(reg, name) ==
  IF name \in reg.protocols THEN name ELSE None
RegistryGet(reg, name) == GetProtocol(reg, name).protocol

\* the calls a program makes on the registry: Register of a codec, or
\* RegisterAlias of a name for "a2s" or for "source", the protocol name the
\* alias list of the Source codec was written for
MaxCalls == 2
AliasNames == {"rust", "vanilla"}
RegistryCalls ==
  {[op |-> "Register", protocol |-> p, alias |-> ""] : p \in Protocols}
    \cup {[op |-> "RegisterAlias", protocol |-> t, alias |-> a] :
            a \in AliasNames, t \in {"a2s", "source"}}

RECURSIVE ApplyCalls(_, _)
ApplyCalls(reg, calls) ==
  IF calls = <<>> THEN reg
  ELSE LET c == Head(calls)
       IN ApplyCalls(IF c.op = "Register" THEN Register(reg, c.protocol)
                     ELSE RegisterAlias(reg, c.alias, c.protocol),
                     Tail(calls))

\* Registry.Get(name) after a sequence of Register and RegisterAlias calls
\* on an empty registry
GetAfterCalls ==
  /\ fnName = "Get"
  /\ fnpc = "call"
  /\ fnRes' = GetProtocol(ApplyCalls(EmptyRegistry, fnArg.calls), fnArg.name)
  /\ fnpc' = "done"
  /\ UNCHANGED <<offFn, fnName, fnArg>>

\* the names looked up: every protocol, every game, and three unknown ones
LookupNames ==
  Protocols \cup UNION {GamesOf(p) : p \in Protocols} \cup {"source", "invalid", ""}

\* query.DefaultPort(game) on the registry the init functions built
LookupGame ==
  /\ fnName = "DefaultPort"
  /\ fnpc = "call"
  /\ LET proto == RegistryGet(RegisterAll(EmptyRegistry, fnArg.order), fnArg.name)
     IN fnRes' = [proto |-> proto,
                  port |-> IF proto # None THEN DefaultPort(proto) ELSE 0]
  /\ fnpc' = "done"
  /\ UNCHANGED <<offFn, fnName, fnArg>>

InitFn ==
  /\ \/ /\ fnName = "parsePlayersResponse"
        /\ \E l \in SeqsUpTo(PlayerValues, MaxList) :
             \E k \in 0..Len(SerializePlayers(l)) : fnArg = [list |-> l, keep |-> k]
     \/ /\ fnName = "cleanMotd"
        /\ fnArg \in Motds
     \/ /\ fnName = "DetectGame"
        /\ fnArg \in Reports
     \/ /\ fnName = "DefaultPort"
        /\ fnArg \in {[order |-> o, name |-> n] : o \in Perms(Protocols), n \in LookupNames}
     \/ /\ fnName = "Get"
        /\ fnArg \in {[calls |-> c, name |-> n] :
                        c \in SeqsUpTo(RegistryCalls, MaxCalls),
                        n \in AliasNames \cup {"a2s", "source"}}
  /\ fnRes = <<>>
  /\ fnpc = "call"
  /\ server = <<>>
  /\ cancelled = FALSE
  /\ optPortRange = <<>>
  /\ specifiedPort = 0
  /\ maxConcurrency = 0
  /\ withProgress = FALSE
  /\ mainpc = "codec"
  /\ ExpandIdle
  /\ ScanIdle
  /\ LegacyIdle
  /\ SingleIdle
  /\ CodecIdle
  /\ WireIdle

NextFn == ParsePlayers \/ CleanMotd \/ ClassifyGame \/ LookupGame \/ GetAfterCalls

SpecFn == InitFn /\ [][NextFn]_vars

\* ------------------------------------------------------------------------
\* C13: a player-list payload that is cut short
\* ------------------------------------------------------------------------
\* C13: when the payload of a player list arrives cut at any offset before
\* its end, parsePlayersResponse reports a parse failure; and it never reads
\* at an offset beyond the bytes it was given.
C13_CutPlayerListIsAnError ==
  (fnName = "parsePlayersResponse" /\ fnpc = "done")
    => /\ fnRes.top <= fnArg.keep
       /\ fnArg.keep < Len(SerializePlayers(fnArg.list)) => fnRes.err # None

\* two players were announced, the second record arrived without its last
\* byte, and the call returned the first player and no error
C13_Witness ==
  /\ fnName = "parsePlayersResponse"
  /\ fnpc = "done"
  /\ Len(fnArg.list) = 2
  /\ fnArg.keep = Len(SerializePlayers(fnArg.list)) - 1
  /\ fnRes.err = None
  /\ Len(fnRes.players) = 1

\* ------------------------------------------------------------------------
\* C18: cleaning a description twice
\* ------------------------------------------------------------------------
\* C18: cleaning the cleaned description of any string changes nothing:
\* clean(clean(x)) = clean(x).
C18_CleanMotdIdempotent ==
  (fnName = "cleanMotd" /\ fnpc = "done" /\ fnArg.kind = "string")
    => cleanMotd(StringMotd(fnRes)) = fnRes

\* removing the code in the middle of marker, marker, code, code left a
\* marker followed by a code
C18_Witness ==
  /\ fnName = "cleanMotd"
  /\ fnpc = "done"
  /\ fnArg = StringMotd(<<167, 167, 97, 97>>)
  /\ fnRes = <<167, 97>>

\* ------------------------------------------------------------------------
\* C20: the AppID decides the game
\* ------------------------------------------------------------------------
\* C20: for an online report whose app_id is in the table the classifier
\* returns the game the table gives for that id, whatever the description
\* is; 730 gives counter-strike and 4000 gives garrys-mod.
C20_AppIDDecides ==
  (fnName = "DetectGame" /\ fnpc = "done" /\ fnArg.Online /\ fnArg.hasExtra
   /\ fnArg.hasAppID /\ ScanInt(fnArg.app_id) \in TableAppIDs)
    => /\ fnRes = detectByAppID(fnArg.app_id)
       /\ fnRes \notin {"", "a2s"}
       /\ ScanInt(fnArg.app_id) = 730 => fnRes = "counter-strike"
       /\ ScanInt(fnArg.app_id) = 4000 => fnRes = "garrys-mod"

\* AppID 4000 with the description of another game
C20_Witness ==
  /\ fnName = "DetectGame"
  /\ fnpc = "done"
  /\ fnArg.Online /\ fnArg.hasExtra /\ fnArg.hasAppID
  /\ fnArg.app_id = FormatInt(4000)
  /\ fnArg.game = "Rust"
  /\ fnRes = "garrys-mod"

\* ------------------------------------------------------------------------
\* C21: classifying by the description
\* ------------------------------------------------------------------------
\* C21: for an online report whose app_id is missing, zero or not in the
\* table, the classifier matches the description: "Counter-Strike 2" gives
\* counter-strike-2, "Counter-Strike" gives counter-strike, "Rust" gives
\* rust, "Garry's Mod" gives garrys-mod, and the family name is returned
\* only for a description that names no game.
C21_DescriptionFallback ==
  (fnName = "DetectGame" /\ fnpc = "done" /\ fnArg.Online /\ fnArg.hasExtra
   /\ (~fnArg.hasAppID \/ ScanInt(fnArg.app_id) \notin TableAppIDs))
    => fnRes = CASE fnArg.game = "Counter-Strike 2" -> "counter-strike-2"
                 [] fnArg.game = "Counter-Strike" -> "counter-strike"
                 [] fnArg.game = "Rust" -> "rust"
                 [] fnArg.game = "Garry's Mod" -> "garrys-mod"
                 [] OTHER -> "a2s"

\* app_id "0" and the description "Counter-Strike 2": the family name
C21_Witness ==
  /\ fnName = "DetectGame"
  /\ fnpc = "done"
  /\ fnArg.Online /\ fnArg.hasExtra /\ fnArg.hasAppID
  /\ fnArg.app_id = FormatInt(0)
  /\ fnArg.game = "Counter-Strike 2"
  /\ fnRes = "a2s"

\* ------------------------------------------------------------------------
\* C22: Steam AppIDs above 65535
\* ------------------------------------------------------------------------
\* C22: a server is classified by its Steam AppID whatever its size: the
\* app_id of the ServerInfo is the server's AppID and Game is what the table
\* gives for it.
C22_ClassifiedByFullAppID ==
  (wProto = "a2s" /\ wirepc = "done" /\ script.kind = "steam" /\ wireRet.Online)
    => /\ wireRet.info.ExtraAppID = FormatInt(script.appID)
       /\ wireRet.Game = detectByAppID(FormatInt(script.appID))

\* a Rust server, AppID 252490: app_id "55882" and the family name
C22_Witness ==
  /\ wProto = "a2s"
  /\ wirepc = "done"
  /\ script.kind = "steam"
  /\ script.appID = 252490
  /\ wireRet.Online
  /\ wireRet.info.ExtraAppID = FormatInt(55882)
  /\ wireRet.Game = "a2s"

\* ------------------------------------------------------------------------
\* C23: the Ping of an A2S answer
\* ------------------------------------------------------------------------
\* C23: in the ServerInfo of a successful A2S query that the engine hands
\* back, Ping is the time from sending the first info request to receiving
\* the first response, whatever the connection setup, a challenge round
\* trip and the player-list request took.
C23_PingIsFirstRoundTrip ==
  (cdProto = "a2s" /\ cdpc = "returned" /\ cdResult.Online)
    => cdResult.Ping = cdClock.first

\* the first response came at once; setup, challenge and player list took
\* MaxDelay each, and Ping is their sum
C23_Witness ==
  /\ cdProto = "a2s"
  /\ cdpc = "returned"
  /\ cdResult.Online
  /\ ~cdResult.ListNil
  /\ cdClock.first = 0
  /\ cdResult.Ping = 3 * MaxDelay

\* ------------------------------------------------------------------------
\* C27: the two tiers of a Terraria query
\* ------------------------------------------------------------------------
\* C27: a Terraria query requests /v2/server/status, /status and
\* /v3/server/status on the REST port in this order and then sends the
\* native server info request; every request but the last one made had no
\* usable answer, so the native request follows three failed REST requests,
\* and a usable REST answer ends the query with that answer.
C27_RestThenNative ==
  cdProto = "terraria"
    => LET order == <<"/v2/server/status", "/status", "/v3/server/status", "native">>
       IN /\ Len(cdSent) <= Len(order)
          /\ \A i \in 1..Len(cdSent) : cdSent[i].req = order[i]
          /\ \A i \in 1..(Len(cdSent) - 1) : ~cdSent[i].usable
          /\ (cdSent # <<>> /\ Last(cdSent).usable)
               => /\ cdpc \in {"done", "returned"}
                  /\ cdResult.Online
                  /\ cdResult.err = None
          /\ cdpc \in {"write", "read"} => Len(cdSent) >= 3

\* the first endpoint failed, the second answered, nothing else was asked
C27_Witness ==
  /\ cdProto = "terraria"
  /\ cdpc = "done"
  /\ Len(cdSent) = 2
  /\ cdSent[2] = [req |-> "/status", usable |-> TRUE]
  /\ cdResult.Online

\* ------------------------------------------------------------------------
\* C24: which ports a discovery scans
\* ------------------------------------------------------------------------
\* C24: with a non-empty Options.PortRange the ports scanned are those of
\* PortRange and no port is probed by the expansion; with an empty PortRange
\* and a port in the address the one port scanned is that port, again
\* without a probe; the expansion runs only when neither is given.
C24_PortRangeExcludesExpansion ==
  /\ (optPortRange # <<>> /\ mainpc # "begin")
       => /\ portsToScan = optPortRange
          /\ probed = {}
          /\ \A w \in Workers : w \in 1..Len(optPortRange)
  /\ (optPortRange = <<>> /\ specifiedPort # 0 /\ mainpc # "begin")
       => /\ portsToScan = <<specifiedPort>>
          /\ probed = {}
          /\ Workers \subseteq {1}
  /\ (probed # {} \/ mainpc \in {"seed", "up", "upEnd", "down", "downEnd", "expanded"})
       => optPortRange = <<>> /\ specifiedPort = 0

\* PortRange 27015, 27016 with an address that names 27015: both ports were
\* scanned, both servers returned, nothing was probed
C24_Witness ==
  /\ mainpc = "done"
  /\ optPortRange = <<27015, 27016>>
  /\ specifiedPort = 27015
  /\ portsToScan = optPortRange
  /\ probed = {}
  /\ Len(servers) = 2

\* ------------------------------------------------------------------------
\* C25: discovery on a host where nothing responds
\* ------------------------------------------------------------------------
\* C25: when no port of the host has a server, a discovery call that has
\* returned carries an empty server list and no error.
C25_UnresponsiveHostIsNoError ==
  (mainpc = "done" /\ server = <<>>)
    => /\ retServers = <<>>
       /\ retErr = None

\* the expansion probed the host, nothing was found, the call returned
C25_Witness ==
  /\ mainpc = "done"
  /\ server = <<>>
  /\ ~cancelled
  /\ optPortRange = <<>>
  /\ specifiedPort = 0
  /\ probed # {}
  /\ retServers = <<>>
  /\ retErr = None

\* ------------------------------------------------------------------------
\* C26: Port and QueryPort of a returned ServerInfo
\* ------------------------------------------------------------------------
\* C26: in the ServerInfo a successful single query returns, Port is the
\* port the caller asked for and QueryPort is the port that answered.
C26_PortRequestedQueryPortAnswered ==
  (mainpc = "done" /\ SingleValid /\ retServers # <<>>)
    => /\ retServers[1].port = MainPort
       /\ retServers[1].QueryPort = Last(tried).port

\* the answer came from the port above the requested one: Port is that
\* port and QueryPort is 0
C26_Witness ==
  /\ mainpc = "done"
  /\ SingleValid
  /\ Len(tried) = 2
  /\ Last(tried).ok
  /\ Last(tried).port = MainPort + 1
  /\ retServers[1].port = MainPort + 1
  /\ retServers[1].QueryPort = 0

C29_EveryProtocolBeforeDead ==
  (~cancelled /\ lastCheck.port # 0 /\ ~lastCheck.ok)
    => lastCheck.tried = Cardinality(Protocols)

\* a port with a server on it was declared non-responsive after one protocol
\* was tried; it was not the server's, which would have answered
C29_Witness ==
  /\ ~cancelled
  /\ lastCheck.port # 0
  /\ ~lastCheck.ok
  /\ ServerAt(lastCheck.port) # None
  /\ lastCheck.tried = 1

\* ------------------------------------------------------------------------
\* C30: a discovery call terminates
\* ------------------------------------------------------------------------
\* C30: every discovery call comes to its return, with every worker
\* finished, every permit given back and the result channel closed and
\* drained, whether or not the caller cancels and also with an empty port
\* list; and no send ever finds the result channel full.
C30_DiscoveryTerminates ==
  /\ [](Len(results) <= ResultsCap /\ sem <= SemCap)
  /\ <>[](/\ mainpc = "done"
          /\ \A w \in Workers : wpc[w] = "done"
          /\ sem = 0
          /\ resultsClosed
          /\ results = <<>>)

\* a call returned after the caller cancelled while a worker waited for the
\* one permit: that worker left without a single protocol query
C30_Witness ==
  /\ mainpc = "done"
  /\ cancelled
  /\ maxConcurrency = 1
  /\ \E w \in Workers : wlog[w] = <<>> /\ wpc[w] = "done"
  /\ sem = 0
  /\ resultsClosed

\* ------------------------------------------------------------------------
\* C31: the close of the progress channel
\* ------------------------------------------------------------------------
\* C31: a DiscoverServersWithProgress call that has returned has closed the
\* progress channel, on the path of an address error and after a
\* cancellation as well; the channel stays closed, and nothing is sent on it
\* once it is closed.
C31_ProgressClosedAfterLastSend ==
  /\ []((mainpc = "done" /\ withProgress) => progressClosed)
  /\ [][progressClosed => (progressClosed' /\ Len(progressChan') <= Len(progressChan))]_vars

\* the legacy function has returned the address error, the channel is open
C31_Witness ==
  /\ mainpc = "done"
  /\ withProgress
  /\ specifiedPort < 0
  /\ retErr = "invalid address"
  /\ ~progressClosed

\* ------------------------------------------------------------------------
\* C32: the order of the progress updates
\* ------------------------------------------------------------------------
\* C32: the callback receives the updates in non-decreasing order of
\* Completed: whenever a worker hands its update to the callback, no other
\* worker still holds an update with a smaller Completed that it has yet to
\* hand over.
C32_UpdatesInOrderOfCompleted ==
  [][withProgress =>
       \A w \in Workers :
         (wpc[w] = "notify" /\ wpc'[w] # "notify")
           => \A v \in Workers \ {w} :
                wpc[v] = "notify" => wprog[v].Completed > wprog[w].Completed]_vars

\* the update with Completed = 2 has been handed over, and the worker that
\* took Completed = 1 under the lock has not yet called the callback
C32_Witness ==
  /\ withProgress
  /\ completed = 2
  /\ \E v \in Workers :
       /\ wpc[v] = "notify"
       /\ wprog[v].Completed = 1
       /\ \A w \in Workers \ {v} : wpc[w] # "notify"

\* ------------------------------------------------------------------------
\* C33: the candidates of one auto-detect call
\* ------------------------------------------------------------------------
\* C33: within one auto-detect call no protocol is queried twice on the same
\* port.
C33_CandidateQueriedOnce ==
  mainpc \in {"detect", "done"}
    => \A i, j \in 1..Len(tried) :
         (tried[i].proto = tried[j].proto /\ tried[i].port = tried[j].port) => i = j

\* "host:25565" with nothing listening: the call failed after seven
\* attempts on port 25565, two with minecraft, two with terraria and three
\* with a2s
C33_Witness ==
  /\ mainpc = "done"
  /\ address = [form |-> "hostport", portStr |-> FormatInt(25565)]
  /\ retErr = "no responsive server"
  /\ \A i \in 1..Len(tried) : tried[i].port = 25565
  /\ LET n(p) == Cardinality({i \in 1..Len(tried) : tried[i].proto = p})
     IN n("minecraft") = 2 /\ n("terraria") = 2 /\ n("a2s") = 3

\* ------------------------------------------------------------------------
\* C34: whose answer a single query returns
\* ------------------------------------------------------------------------
\* C34: the ServerInfo a single query for game G returns was produced by the
\* protocol registered for G, on the target port or on an adjacent one.
C34_AnswerIsOfOwnProtocol ==
  (mainpc = "done" /\ SingleValid /\ retServers # <<>>)
    => retServers[1].proto = Get(game)

\* a query for minecraft returned the A2S server of the next port
C34_Witness ==
  /\ mainpc = "done"
  /\ game = "minecraft"
  /\ ~cancelled
  /\ Len(retServers) = 1
  /\ retServers[1].proto = "a2s"
  /\ retServers[1].port = MainPort + 1
  /\ ServerAt(MainPort + 1) = "a2s"

\* ------------------------------------------------------------------------
\* C35: the requests of one A2S query
\* ------------------------------------------------------------------------
InfoRequests == {i \in 1..Len(cdSent) : cdSent[i].req = "info"}
PlayerRequests == {i \in 1..Len(cdSent) : cdSent[i].req = "players"}

C36_FailedDialSkipsThePort ==
  (lastCheck.port # 0 /\ ~lastCheck.tcp) => (~lastCheck.ok /\ lastCheck.tried = 0)

\* the dial to an A2S server's port failed, the protocols were tried all the
\* same and the third one found the server
C36_Witness ==
  /\ lastCheck.port # 0
  /\ ~lastCheck.tcp
  /\ ServerAt(lastCheck.port) = "a2s"
  /\ lastCheck.ok
  /\ lastCheck.tried = 3
  /\ lastCheck.port \in allPorts

\* ------------------------------------------------------------------------
\* C37: the caller's Options
\* ------------------------------------------------------------------------
\* C37: no step of a single query changes a field of the Options struct the
\* request points to; the primary attempt runs on that struct, with
\* DiscoveryMode unset, and every adjacent-port attempt runs on options with
\* DiscoveryMode set.
C37_OptionsUnchanged ==
  /\ [][ReqOptions' = ReqOptions]_vars
  /\ [](/\ ~discoveryMode
        /\ \A i \in 1..Len(tried) : tried[i].discovery <=> (i > 1))

\* the primary attempt failed, an adjacent port was tried in discovery mode,
\* the call returned and the caller's struct is as it was
C37_Witness ==
  /\ mainpc = "done"
  /\ Len(tried) >= 2
  /\ ~tried[1].discovery
  /\ tried[2].discovery
  /\ ~ReqOptions.DiscoveryMode

C39_FoundIsNeverNil ==
  (fnName = "Get" /\ fnpc = "done" /\ fnRes.found) => fnRes.protocol # None

\* an alias of a registered protocol is found as that protocol, the alias
\* having replaced the one Register derived from the game list
C39_Witness ==
  /\ fnName = "Get"
  /\ fnpc = "done"
  /\ fnArg.calls = <<[op |-> "Register", protocol |-> "a2s", alias |-> ""],
                     [op |-> "RegisterAlias", protocol |-> "a2s", alias |-> "vanilla"]>>
  /\ fnArg.name = "vanilla"
  /\ fnRes = [protocol |-> "a2s", found |-> TRUE]

\* ------------------------------------------------------------------------
\* C40: the counters of the progress updates
\* ------------------------------------------------------------------------
\* the protocol queries of the scan that have returned: those a worker took
\* up, less the ones still in proto.Query
FinishedQueries ==
  Cardinality({x \in Workers \X (1..Cardinality(Protocols)) :
                 /\ x[2] <= Len(wlog[x[1]])
                 /\ ~(x[2] = Len(wlog[x[1]]) /\ wpc[x[1]] \in {"dial", "io"})})

\* 0 <= ServersFound <= Completed <= TotalPorts x TotalProtocols
CountersInRange(u) ==
  /\ 0 <= u.ServersFound
  /\ u.ServersFound <= u.Completed
  /\ u.Completed <= u.TotalPorts * u.TotalProtocols

\* C40: every progress update of the scan, whether a worker holds it for
\* the callback or it waits in the caller's channel, has
\* 0 <= ServersFound <= Completed <= TotalPorts x TotalProtocols; the update
\* a worker forms carries as Completed the number of protocol queries that
\* have finished by then and as ServersFound the number of servers produced
\* by then; and when the scan returns, ServersFound is the number of servers
\* it returns.
C40_ProgressCounters ==
  /\ [](withProgress =>
          /\ \A i \in 1..Len(progressChan) : CountersInRange(progressChan[i])
          /\ \A w \in Workers : wpc[w] = "notify" => CountersInRange(wprog[w])
          /\ (mainpc = "done" /\ retErr = None) => serversFound = Len(retServers))
  /\ [][withProgress =>
          \A w \in Workers :
            (wpc[w] # "notify" /\ wpc'[w] = "notify")
              => /\ wprog'[w].Completed = FinishedQueries'
                 /\ wprog'[w].ServersFound = Len(servers') + Len(results')
                 /\ wprog'[w].TotalPorts = Len(portsToScan)]_vars

\* both servers were found and returned, and the update in the caller's
\* channel is the last one formed: it counts every finished query and the
\* two servers
C40_Witness ==
  /\ withProgress
  /\ mainpc = "done"
  /\ Len(retServers) = 2
  /\ completed > 2
  /\ progressChan # <<>>
  /\ Last(progressChan) = ScanProgress(completed, 2)

====
